---- MODULE Spec2Model ----
(***************************************************************************)
(* State-machine model of network_socket::net_socket                      *)
(* (src/src/net_socket.cc with the class declaration of                   *)
(* src/unnamed/part_004).  Each action is one public member function,     *)
(* taken as a whole; the platform socket calls it makes are modelled by   *)
(* a descriptor table and by nondeterministic results of the resolver     *)
(* and of the raw transport.                                              *)
(***************************************************************************)
EXTENDS Integers, Sequences, FiniteSets, TLC

\* ------------------------------------------------------------------ bounds
\* number of net_socket objects the program may have alive at once
NSock == 2
\* number of descriptors the process may have open at once
MaxFds == 2
\* number of member-function calls in one run
MaxOps == 4
\* number of address objects
NAddr == 2
\* number of operations on the address objects in a behaviour
MaxAddrOps == 2

Socks == 1..NSock
Fds == 1..MaxFds

\* ------------------------------------------------------ program constants
\* the "no descriptor" value of _sock_desc
NoDesc == -1
\* default of _backlog
DefaultBacklog == 5
\* default of _recv_size
DefaultRecvSize == 1400

\* ------------------------------------------------------------ input sets
\* values of enum network_protocol {ANY, IPv4, IPv6} and one value outside it
NetProtos == {"ANY", "IPv4", "IPv6"}
NetInputs == {"IPv6", "BADNET"}
\* values of enum transport_protocol {UDP, TCP} and one value outside it
TransInputs == {"TCP", "UDP", "BADTRANS"}
BacklogInputs == {-1, 0, 6}
\* timeouts in nanoseconds: a negative one, none, and 1.5000005 s, which is
\* not a whole number of microseconds
TimeoutInputs == {-1, 0, 1500000500}
RecvSizeInputs == {100}
\* arguments of the constructor
CtorInputs == {<<"ANY", "TCP">>, <<"IPv6", "TCP">>, <<"BADNET", "TCP">>, <<"IPv4", "UDP">>}
\* byte counts passed to a single send or recv
IoSizes == {0, 1}
\* what one resolver candidate does: socket() fails, bind()/connect() fails,
\* or bind()/connect() succeeds
CandOut == {"nosock", "fail", "ok"}
\* results of getaddrinfo(): the empty list stands for its failure, any other
\* list gives, candidate by candidate, what the platform will do with it
ResolverResults ==
    {<<>>, <<"ok">>, <<"fail">>, <<"nosock", "ok">>, <<"fail", "nosock">>,
     <<"ok", "fail">>, <<"fail", "ok", "ok">>}

VARIABLES socks, live, os, last, nops,
          inq,     \* bytes the peer has sent that no receive has consumed
          peer,    \* the other end of object 1's connection
          wire,    \* bytes object 1 has transmitted on its connection
          io,      \* record of the I/O call that produced the current state
          rx,      \* what the receiving calls of object 1 have returned
          addrs,   \* the address objects of the program
          alast,   \* record of the address operation that produced the state
          ra       \* the recv_all() call in progress on object 1, step by step

iovars == <<inq, peer, wire, io, rx>>

avars == <<addrs, alast>>

vars == <<socks, live, os, last, nops, inq, peer, wire, io, rx, addrs, alast, ra>>

\* ------------------------------------------------------- object state
\* in-class member initialisers of net_socket
DefaultSock ==
    [sock_desc   |-> NoDesc,
     net_proto   |-> "ANY",
     trans_proto |-> "TCP",
     passive     |-> FALSE,
     backlog     |-> DefaultBacklog,
     connected   |-> FALSE,
     do_timeout  |-> FALSE,
     timeout     |-> [tv_sec |-> 0, tv_usec |-> 0],
     recv_size   |-> DefaultRecvSize]

\* the configuration of a socket: what survives close()
Config(sk) == [net_proto   |-> sk.net_proto,
               trans_proto |-> sk.trans_proto,
               backlog     |-> sk.backlog,
               do_timeout  |-> sk.do_timeout,
               timeout     |-> sk.timeout,
               recv_size   |-> sk.recv_size]

IsOpen(sk) == sk.passive \/ sk.connected

\* the C++ class of the exception behind each kind of error: the state
\* checks and the failures of the platform both throw std::runtime_error
ExcClass(err) ==
    CASE err = "none" -> "none"
      [] err = "invalid_config" -> "invalid_argument"
      [] err = "timeout" -> "timeout_exception"
      [] OTHER -> "runtime_error"

\* record of the call that produced the current state
Ev(op, s, o, arg, err, ret) ==
    [op |-> op, s |-> s, o |-> o, arg |-> arg, err |-> err, ret |-> ret,
     resolved |-> FALSE, tried |-> 0, calls |-> <<>>, lok |-> TRUE]

EvNet(op, s, err, resolved, tried) ==
    [op |-> op, s |-> s, o |-> 0, arg |-> 0, err |-> err, ret |-> 0,
     resolved |-> resolved, tried |-> tried, calls |-> <<>>, lok |-> TRUE]

\* ------------------------------------------------- descriptor table
HasFree(t) == \E f \in Fds : t[f] = "free"

\* socket()/accept() return the lowest unused descriptor
LowestFree(t) == CHOOSE f \in Fds : t[f] = "free" /\ \A g \in Fds : t[g] = "free" => f <= g

\* ::close(fd)
OsClose(t, fd) == IF fd \in Fds THEN [t EXCEPT ![fd] = "free"] ELSE t

\* no connection yet: the peer has sent nothing and has not closed
NoPeer == [sent |-> 0, closed |-> FALSE]

\* no recv_all() has been called yet.  pc: where the call is ("while": at
\* the test of the loop, "select": in recv() at select(), "recv": in recv()
\* at ::recv(), "done": returned or raised); size: exact_size; rcvd: the
\* local rcvd; its: calls of recv() so far; budget: the time select() was
\* given; waited: the time the current select() has waited; elapsed: the
\* time spent in the call; timed, tmo: _do_timeout and _timeout when the
\* call began; eof: ::recv() has returned 0; times are counted in half
\* seconds
NoCall == [pc |-> "none", size |-> 0, rcvd |-> 0, its |-> 0, budget |-> 0,
           waited |-> 0, elapsed |-> 0, err |-> "none", ret |-> 0,
           timed |-> FALSE, tmo |-> 0, eof |-> FALSE]

\* no connection yet: got are the bytes that recv() and recv_all() of
\* object 1 have returned on the connection, call after call; skipped tells
\* that a call that raised had taken bytes from the connection
NoRx == [got |-> <<>>, skipped |-> FALSE]

\* record of an I/O call: the overload, the argument, the size the overload
\* resolved, the error raised and the value returned; data are the bytes
\* stored in the caller's buffer, tx the bytes transmitted, att the single
\* attempts of a loop, calls the platform calls made, draw the random draw,
\* rcvd the number of bytes consumed, sel the answer of select() and wait
\* the deadline select() was given
IoEv(op, ov, arg, size, err, ret) ==
    [op |-> op, ov |-> ov, arg |-> arg, size |-> size, err |-> err, ret |-> ret,
     data |-> <<>>, tx |-> <<>>, att |-> <<>>, calls |-> <<>>, draw |-> 0, rcvd |-> 0,
     sel |-> "none", wait |-> [tv_sec |-> 0, tv_usec |-> 0],
     len |-> 0, w |-> 1, cont |-> 0]

Tick == /\ nops < MaxOps
        /\ nops' = nops + 1
        /\ UNCHANGED avars
        /\ UNCHANGED ra

\* the address objects
Addrs == 1..NAddr

\* address::address(): memset(&addr, 0, sizeof(addr)), ss_family = AF_INET.
\* family is ss_family; port is sin_port or sin6_port, in network byte order;
\* addr is sin_addr (4 bytes) or sin6_addr (8 groups of 16 bits); flow is
\* sin6_flowinfo; scope is sin6_scope_id, which in an AF_INET structure is a
\* part of the storage behind the sockaddr_in
ZeroAddr == [family |-> "AF_INET", port |-> 0, addr |-> <<0, 0, 0, 0>>, flow |-> 0, scope |-> 0]

\* record of an address operation: on object a, with a structure of the form
\* given (or "none"), with the argument arg, ending with err
AEv(op, a, form, arg, err) == [op |-> op, a |-> a, form |-> form, arg |-> arg, err |-> err]

\* the program has default-constructed its first net_socket; the other
\* objects do not exist yet
Init ==
    /\ socks = [s \in Socks |-> DefaultSock]
    /\ live = [s \in Socks |-> s = 1]
    /\ os = [f \in Fds |-> "free"]
    /\ last = Ev("init", 0, 0, 0, "none", 0)
    /\ nops = 0
    /\ inq = <<>>
    /\ peer = NoPeer
    /\ wire = <<>>
    /\ io = IoEv("init", "raw", 0, 0, "none", 0)
    /\ rx = NoRx
    /\ addrs = [a \in Addrs |-> ZeroAddr]
    /\ alast = AEv("init", 0, "none", 0, "none")
    /\ ra = NoCall

\* ------------------------------------------- construction, destruction
\* net_socket::net_socket(net, tran): the argument checks of the constructor
CtorCheck(net, tran) ==
    IF tran # "TCP" THEN "invalid_config"
    ELSE IF net \notin NetProtos THEN "invalid_config"
    ELSE "none"

\* close() that leaves the passive flag set
CloseFieldsNoPassive(sk) ==
    IF sk.sock_desc # NoDesc
    THEN [sk EXCEPT !.sock_desc = NoDesc, !.connected = FALSE]
    ELSE sk

\* net_socket::close(): the fields of the object afterwards
CloseFields(sk) ==
    IF sk.sock_desc # NoDesc
    THEN [sk EXCEPT !.sock_desc = NoDesc, !.passive = FALSE, !.connected = FALSE]
    ELSE sk

\* close() that forgets ::close(_sock_desc)
CloseOsNoRelease(sk, t) == t

\* net_socket::close(): the descriptor table afterwards
CloseOs(sk, t) == IF sk.sock_desc # NoDesc THEN OsClose(t, sk.sock_desc) ELSE t

\* explicit net_socket(network_protocol, transport_protocol)
construct(s) ==
    /\ ~live[s]
    /\ Tick /\ UNCHANGED iovars
    /\ \E a \in CtorInputs :
         LET net == a[1]
             tran == a[2]
             e == CtorCheck(net, tran) IN
         /\ last' = Ev("construct", s, 0, a, e, 0)
         /\ IF e = "none"
            THEN /\ live' = [live EXCEPT ![s] = TRUE]
                 /\ socks' = [socks EXCEPT ![s] =
                                [DefaultSock EXCEPT !.net_proto = net, !.trans_proto = tran]]
            ELSE UNCHANGED <<live, socks>>
    /\ UNCHANGED os

\* net_socket::~net_socket()
destroy(s) ==
    /\ live[s]
    /\ Tick /\ UNCHANGED iovars
    /\ os' = CloseOs(socks[s], os)
    /\ live' = [live EXCEPT ![s] = FALSE]
    /\ socks' = [socks EXCEPT ![s] = DefaultSock]
    /\ last' = Ev("destroy", s, 0, socks[s].sock_desc, "none", 0)

\* net_socket::close()
close(s) ==
    /\ live[s]
    /\ Tick /\ UNCHANGED iovars
    /\ os' = CloseOs(socks[s], os)
    /\ socks' = [socks EXCEPT ![s] = CloseFields(socks[s])]
    /\ last' = Ev("close", s, 0, socks[s].sock_desc, "none", 0)
    /\ UNCHANGED live

\* ---------------------------------------------------------------- setters
\* each setter is a function from the object and the argument to the
\* exception raised ("none" when it returns) and the object afterwards
SetNetworkProtocol(sk, np) ==
    IF sk.passive \/ sk.connected THEN [err |-> "illegal_state", sk |-> sk]
    ELSE IF np \in NetProtos THEN [err |-> "none", sk |-> [sk EXCEPT !.net_proto = np]]
    ELSE [err |-> "invalid_config", sk |-> sk]

\* set_transport_protocol() that accepts UDP
SetTransportProtocolAnyKnown(sk, tp) ==
    IF sk.passive \/ sk.connected THEN [err |-> "illegal_state", sk |-> sk]
    ELSE IF tp \in {"UDP", "TCP"} THEN [err |-> "none", sk |-> [sk EXCEPT !.trans_proto = tp]]
    ELSE [err |-> "invalid_config", sk |-> sk]

SetTransportProtocol(sk, tp) ==
    IF sk.passive \/ sk.connected THEN [err |-> "illegal_state", sk |-> sk]
    ELSE IF tp = "UDP" THEN [err |-> "invalid_config", sk |-> sk]
    ELSE IF tp = "TCP" THEN [err |-> "none", sk |-> [sk EXCEPT !.trans_proto = tp]]
    ELSE [err |-> "invalid_config", sk |-> sk]

\* set_backlog() that looks at the state of the socket first
SetBacklogStateFirst(sk, backlog) ==
    IF sk.passive THEN [err |-> "illegal_state", sk |-> sk]
    ELSE IF backlog < 0 THEN [err |-> "invalid_config", sk |-> sk]
    ELSE [err |-> "none", sk |-> [sk EXCEPT !.backlog = backlog]]

SetBacklog(sk, backlog) ==
    IF backlog < 0 THEN [err |-> "invalid_config", sk |-> sk]
    ELSE IF sk.passive THEN [err |-> "illegal_state", sk |-> sk]
    ELSE [err |-> "none", sk |-> [sk EXCEPT !.backlog = backlog]]

\* the 1e6 of set_timeout() and get_timeout(): microseconds in a second
UsecPerSec == 1000000
\* nanoseconds, the unit of the timeouts of the model, in a second
NsPerSec == 1000 * UsecPerSec

\* the argument is the double s, given as q nanoseconds; tv_sec = (long) s,
\* tv_usec = (long) ((s - tv_sec) * 1e6): the conversions to long cut off
\* what is below a second and below a microsecond
SetTimeout(sk, q) ==
    IF q < 0 THEN [err |-> "invalid_config", sk |-> sk]
    ELSE IF q = 0
    THEN [err |-> "none",
          sk |-> [sk EXCEPT !.do_timeout = FALSE,
                            !.timeout = [tv_sec |-> 0, tv_usec |-> 0]]]
    ELSE [err |-> "none",
          sk |-> [sk EXCEPT !.do_timeout = TRUE,
                            !.timeout = [tv_sec |-> q \div NsPerSec,
                                         tv_usec |-> (q % NsPerSec) \div 1000]]]

\* net_socket::get_timeout(), in nanoseconds:
\* _timeout.tv_sec + _timeout.tv_usec / 1e6 when _do_timeout, else 0.0
GetTimeout(sk) ==
    IF sk.do_timeout
    THEN sk.timeout.tv_sec * NsPerSec + sk.timeout.tv_usec * 1000
    ELSE 0

\* net_socket::timeout_is_set()
TimeoutIsSet(sk) == sk.do_timeout

ClearTimeout(sk) == [err |-> "none", sk |-> [sk EXCEPT !.do_timeout = FALSE]]

SetRecvSize(sk, n) == [err |-> "none", sk |-> [sk EXCEPT !.recv_size = n]]

\* a setter call on object s with result r
Setter(op, s, arg, r) ==
    /\ socks' = [socks EXCEPT ![s] = r.sk]
    /\ last' = Ev(op, s, 0, arg, r.err, 0)
    /\ UNCHANGED <<live, os>>

set_network_protocol(s) ==
    /\ live[s] /\ Tick /\ UNCHANGED iovars
    /\ \E np \in NetInputs :
         Setter("set_network_protocol", s, np, SetNetworkProtocol(socks[s], np))

set_transport_protocol(s) ==
    /\ live[s] /\ Tick /\ UNCHANGED iovars
    /\ \E tp \in TransInputs :
         Setter("set_transport_protocol", s, tp, SetTransportProtocol(socks[s], tp))

set_backlog(s) ==
    /\ live[s] /\ Tick /\ UNCHANGED iovars
    /\ \E b \in BacklogInputs : Setter("set_backlog", s, b, SetBacklog(socks[s], b))

set_timeout(s) ==
    /\ live[s] /\ Tick /\ UNCHANGED iovars
    /\ \E q \in TimeoutInputs : Setter("set_timeout", s, q, SetTimeout(socks[s], q))

clear_timeout(s) ==
    /\ live[s] /\ Tick /\ UNCHANGED iovars
    /\ Setter("clear_timeout", s, 0, ClearTimeout(socks[s]))

set_recv_size(s) ==
    /\ live[s] /\ Tick /\ UNCHANGED iovars
    /\ \E n \in RecvSizeInputs : Setter("set_recv_size", s, n, SetRecvSize(socks[s], n))

\* ------------------------------------------------ connection establishment
\* socket() cannot succeed when the descriptor table is full
EffOuts(outs, t) == IF HasFree(t) THEN outs ELSE [i \in DOMAIN outs |-> "nosock"]

\* the candidate at which the for loop breaks, 0 when it runs off the list
FirstOk(outs) ==
    IF \E i \in DOMAIN outs : outs[i] = "ok"
    THEN CHOOSE i \in DOMAIN outs :
           outs[i] = "ok" /\ \A j \in DOMAIN outs : outs[j] = "ok" => i <= j
    ELSE 0

\* the number of candidates the for loop visits
Tried(outs) == IF FirstOk(outs) = 0 THEN Len(outs) ELSE FirstOk(outs)

NetRes(err, sk, t, resolved, tried) ==
    [err |-> err, sk |-> sk, os |-> t, resolved |-> resolved, tried |-> tried,
     calls |-> <<>>]

\* the outcome of listen()/connect() together with the calls made to the
\* platform after the resolver, in the order they were made
NetResCalls(err, sk, t, resolved, tried, calls) ==
    [err |-> err, sk |-> sk, os |-> t, resolved |-> resolved, tried |-> tried,
     calls |-> calls]

\* one call to the platform: f(fd, ...) for candidate cand returned r
PCall(f, fd, cand, arg, r) == [f |-> f, fd |-> fd, cand |-> cand, arg |-> arg, r |-> r]

\* the candidate loop without ::close(s) after a failed bind/connect
RECURSIVE CandLoopLeaksFailed(_, _, _, _, _)
CandLoopLeaksFailed(call, outs, t, i, calls) ==
    IF i > Len(outs) THEN [rp |-> 0, s |-> -1, os |-> t, calls |-> calls]
    ELSE IF outs[i] = "nosock" \/ ~HasFree(t)
    THEN CandLoopLeaksFailed(call, outs, t, i + 1,
                             Append(calls, PCall("socket", -1, i, 0, -1)))
    ELSE LET s == LowestFree(t)
             t1 == [t EXCEPT ![s] = "open"]
             c1 == Append(calls, PCall("socket", -1, i, 0, s)) IN
         IF outs[i] = "ok"
         THEN [rp |-> i, s |-> s, os |-> t1,
               calls |-> Append(c1, PCall(call, s, i, 0, 0))]
         ELSE CandLoopLeaksFailed(call, outs, t1, i + 1,
                                  Append(c1, PCall(call, s, i, 0, -1)))

\* for ( rp = result; rp != nullptr; rp = rp->ai_next ): candidate i gets
\* a descriptor from socket() (-1: continue), then bind()/connect() is
\* called on it; the loop breaks at the first success and closes the
\* descriptor otherwise.  rp = 0 stands for rp == nullptr after the loop.
RECURSIVE CandLoop(_, _, _, _, _)
CandLoop(call, outs, t, i, calls) ==
    IF i > Len(outs) THEN [rp |-> 0, s |-> -1, os |-> t, calls |-> calls]
    ELSE IF outs[i] = "nosock" \/ ~HasFree(t)
    THEN CandLoop(call, outs, t, i + 1,
                  Append(calls, PCall("socket", -1, i, 0, -1)))
    ELSE LET s == LowestFree(t)
             t1 == [t EXCEPT ![s] = "open"]
             c1 == Append(calls, PCall("socket", -1, i, 0, s)) IN
         IF outs[i] = "ok"
         THEN [rp |-> i, s |-> s, os |-> t1,
               calls |-> Append(c1, PCall(call, s, i, 0, 0))]
         ELSE CandLoop(call, outs, OsClose(t1, s), i + 1,
                       c1 \o <<PCall(call, s, i, 0, -1), PCall("close", s, i, 0, 0)>>)

\* the number of candidates the loop has visited when it ends at x
Visited(x, outs) == IF x.rp = 0 THEN Len(outs) ELSE x.rp

\* listen() that throws without ::close(s) when ::listen() fails
ListenLeaksBound(sk, t, outs, lok) ==
    IF sk.sock_desc # NoDesc THEN NetRes("illegal_state", sk, t, FALSE, 0)
    ELSE IF outs = <<>> THEN NetRes("resource", sk, t, TRUE, 0)
    ELSE LET x == CandLoop("bind", outs, t, 1, <<>>) IN
         IF x.rp = 0
         THEN NetResCalls("resource", sk, x.os, TRUE, Visited(x, outs), x.calls)
         ELSE IF ~lok
         THEN NetResCalls("resource", sk, x.os, TRUE, Visited(x, outs),
                          Append(x.calls, PCall("listen", x.s, x.rp, sk.backlog, -1)))
         ELSE NetResCalls("none",
                          [sk EXCEPT !.sock_desc = x.s, !.passive = TRUE],
                          [x.os EXCEPT ![x.s] = "listen"],
                          TRUE, Visited(x, outs),
                          Append(x.calls, PCall("listen", x.s, x.rp, sk.backlog, 0)))

\* listen() that only refuses a passive socket
ListenPassiveGuard(sk, t, outs, lok) ==
    IF sk.passive THEN NetRes("illegal_state", sk, t, FALSE, 0)
    ELSE IF outs = <<>> THEN NetRes("resource", sk, t, TRUE, 0)
    ELSE LET e == EffOuts(outs, t) IN
         IF FirstOk(e) = 0 THEN NetRes("resource", sk, t, TRUE, Tried(e))
         ELSE IF ~lok THEN NetRes("resource", sk, t, TRUE, Tried(e))
         ELSE NetRes("none",
                     [sk EXCEPT !.sock_desc = LowestFree(t), !.passive = TRUE],
                     [t EXCEPT ![LowestFree(t)] = "listen"],
                     TRUE, Tried(e))

\* net_socket::listen(host, service).  outs: the resolver's result, <<>>
\* when getaddrinfo() fails; lok: ::listen() succeeds.
Listen(sk, t, outs, lok) ==
    IF sk.sock_desc # NoDesc THEN NetRes("illegal_state", sk, t, FALSE, 0)
    ELSE IF outs = <<>> THEN NetRes("resource", sk, t, TRUE, 0)
    ELSE LET x == CandLoop("bind", outs, t, 1, <<>>) IN
         IF x.rp = 0
         THEN NetResCalls("resource", sk, x.os, TRUE, Visited(x, outs), x.calls)
         ELSE IF ~lok
         THEN NetResCalls("resource", sk, OsClose(x.os, x.s), TRUE, Visited(x, outs),
                          x.calls \o <<PCall("listen", x.s, x.rp, sk.backlog, -1),
                                       PCall("close", x.s, x.rp, 0, 0)>>)
         ELSE NetResCalls("none",
                          [sk EXCEPT !.sock_desc = x.s, !.passive = TRUE],
                          [x.os EXCEPT ![x.s] = "listen"],
                          TRUE, Visited(x, outs),
                          Append(x.calls, PCall("listen", x.s, x.rp, sk.backlog, 0)))

\* connect() without the check of the passive flag
ConnectNoGuard(sk, t, outs) ==
    IF outs = <<>> THEN NetRes("resource", sk, t, TRUE, 0)
    ELSE LET e == EffOuts(outs, t) IN
         IF FirstOk(e) = 0 THEN NetRes("resource", sk, t, TRUE, Tried(e))
         ELSE NetRes("none",
                     [sk EXCEPT !.sock_desc = LowestFree(t), !.connected = TRUE],
                     [t EXCEPT ![LowestFree(t)] = "conn"],
                     TRUE, Tried(e))

\* connect() that looks at the passive flag only after the candidate loop
ConnectLateGuard(sk, t, outs) ==
    IF outs = <<>> THEN NetRes("resource", sk, t, TRUE, 0)
    ELSE IF sk.passive THEN NetRes("illegal_state", sk, t, TRUE, Tried(EffOuts(outs, t)))
    ELSE LET e == EffOuts(outs, t) IN
         IF FirstOk(e) = 0 THEN NetRes("resource", sk, t, TRUE, Tried(e))
         ELSE NetRes("none",
                     [sk EXCEPT !.sock_desc = LowestFree(t), !.connected = TRUE],
                     [t EXCEPT ![LowestFree(t)] = "conn"],
                     TRUE, Tried(e))

\* net_socket::connect(host, service)
Connect(sk, t, outs) ==
    IF sk.passive THEN NetRes("illegal_state", sk, t, FALSE, 0)
    ELSE IF outs = <<>> THEN NetRes("resource", sk, t, TRUE, 0)
    ELSE LET x == CandLoop("connect", outs, t, 1, <<>>) IN
         IF x.rp = 0
         THEN NetResCalls("resource", sk, x.os, TRUE, Visited(x, outs), x.calls)
         ELSE NetResCalls("none",
                          [sk EXCEPT !.sock_desc = x.s, !.connected = TRUE],
                          [x.os EXCEPT ![x.s] = "conn"],
                          TRUE, Visited(x, outs), x.calls)

NetCall(op, s, r) ==
    /\ socks' = [socks EXCEPT ![s] = r.sk]
    /\ os' = r.os
    /\ last' = EvNet(op, s, r.err, r.resolved, r.tried)
    /\ UNCHANGED live

listen(s) ==
    /\ live[s] /\ Tick /\ UNCHANGED iovars
    /\ \E outs \in ResolverResults, lok \in BOOLEAN :
         NetCall("listen", s, Listen(socks[s], os, outs, lok))

connect(s) ==
    /\ live[s] /\ Tick /\ UNCHANGED iovars
    /\ \E outs \in ResolverResults :
         NetCall("connect", s, Connect(socks[s], os, outs))

\* the lists of candidates getaddrinfo() may return, <<>> for its failure
CandidateLists == UNION {[1..n -> CandOut] : n \in 0..3}

\* listen()/connect() with the platform calls on record
NetCallTraced(op, s, r, outs, lok) ==
    /\ socks' = [socks EXCEPT ![s] = r.sk]
    /\ os' = r.os
    /\ last' = [EvNet(op, s, r.err, r.resolved, r.tried)
                 EXCEPT !.arg = outs, !.calls = r.calls, !.lok = lok]
    /\ UNCHANGED live

net_listen(s) ==
    /\ live[s] /\ Tick /\ UNCHANGED iovars
    /\ \E outs \in CandidateLists, lok \in BOOLEAN :
         NetCallTraced("listen", s, Listen(socks[s], os, outs, lok), outs, lok)

net_connect(s) ==
    /\ live[s] /\ Tick /\ UNCHANGED iovars
    /\ \E outs \in CandidateLists :
         NetCallTraced("connect", s, Connect(socks[s], os, outs), outs, TRUE)

\* the calls that open and close one socket and set its backlog
NextNet ==
    \E s \in Socks :
      \/ net_listen(s)
      \/ net_connect(s)
      \/ close(s)
      \/ set_backlog(s)

SpecNet == Init /\ [][NextNet]_vars

\* ::accept(fd): -1 unless fd is a listening descriptor, a connection is
\* delivered (aok) and a descriptor is free
OsAccept(t, fd, aok) ==
    IF fd \in Fds /\ t[fd] = "listen" /\ aok /\ HasFree(t) THEN LowestFree(t) ELSE -1

\* accept() that returns a default-constructed net_socket
AcceptedSockDefaultProto(sk, new_s) ==
    [DefaultSock EXCEPT !.sock_desc = new_s, !.connected = TRUE]

\* the net_socket that accept() returns
AcceptedSock(sk, new_s) ==
    [DefaultSock EXCEPT !.net_proto = sk.net_proto, !.trans_proto = sk.trans_proto,
                        !.sock_desc = new_s, !.connected = TRUE]

\* accept() that does not test the result of ::accept()
acceptNoCheck(s, n) ==
    /\ live[s] /\ ~live[n] /\ Tick /\ UNCHANGED iovars
    /\ \E aok \in BOOLEAN :
         LET new_s == OsAccept(os, socks[s].sock_desc, aok) IN
         /\ os' = IF new_s \in Fds THEN [os EXCEPT ![new_s] = "conn"] ELSE os
         /\ socks' = [socks EXCEPT ![n] = AcceptedSock(socks[s], new_s)]
         /\ live' = [live EXCEPT ![n] = TRUE]
         /\ last' = Ev("accept", s, n, 0, "none", 0)

\* net_socket::accept(); n is the object the returned unique_ptr owns
accept(s, n) ==
    /\ live[s] /\ ~live[n] /\ Tick /\ UNCHANGED iovars
    /\ \E aok \in BOOLEAN :
         LET new_s == OsAccept(os, socks[s].sock_desc, aok) IN
         IF new_s = -1
         THEN /\ last' = Ev("accept", s, 0, 0, "resource", 0)
              /\ UNCHANGED <<socks, live, os>>
         ELSE /\ os' = [os EXCEPT ![new_s] = "conn"]
              /\ socks' = [socks EXCEPT ![n] = AcceptedSock(socks[s], new_s)]
              /\ live' = [live EXCEPT ![n] = TRUE]
              /\ last' = Ev("accept", s, n, 0, "none", 0)

\* ------------------------------------------------------------ copy, move
\* copy() whose check forgets other->_connected
CopyNoConnectedCheck(self, other) ==
    IF self.passive \/ other.passive \/ self.connected
    THEN [err |-> "illegal_state", sk |-> self]
    ELSE [err |-> "none",
          sk |-> [self EXCEPT !.net_proto = other.net_proto,
                              !.trans_proto = other.trans_proto,
                              !.backlog = other.backlog,
                              !.do_timeout = other.do_timeout,
                              !.timeout = other.timeout,
                              !.recv_size = other.recv_size,
                              !.sock_desc = NoDesc,
                              !.passive = FALSE,
                              !.connected = FALSE]]

\* copy() that forgets _recv_size
CopyNoRecvSize(self, other) ==
    IF self.passive \/ other.passive \/ self.connected \/ other.connected
    THEN [err |-> "illegal_state", sk |-> self]
    ELSE [err |-> "none",
          sk |-> [self EXCEPT !.net_proto = other.net_proto,
                              !.trans_proto = other.trans_proto,
                              !.backlog = other.backlog,
                              !.do_timeout = other.do_timeout,
                              !.timeout = other.timeout,
                              !.sock_desc = NoDesc,
                              !.passive = FALSE,
                              !.connected = FALSE]]

\* net_socket::copy(other) with other != nullptr
Copy(self, other) ==
    IF self.passive \/ other.passive \/ self.connected \/ other.connected
    THEN [err |-> "illegal_state", sk |-> self]
    ELSE [err |-> "none",
          sk |-> [self EXCEPT !.net_proto = other.net_proto,
                              !.trans_proto = other.trans_proto,
                              !.backlog = other.backlog,
                              !.do_timeout = other.do_timeout,
                              !.timeout = other.timeout,
                              !.recv_size = other.recv_size,
                              !.sock_desc = NoDesc,
                              !.passive = FALSE,
                              !.connected = FALSE]]

\* copy(nullptr) that forgets _connected
CopyResetKeepsConnected(self) ==
    [self EXCEPT !.net_proto = "ANY",
                 !.trans_proto = "TCP",
                 !.backlog = DefaultBacklog,
                 !.do_timeout = FALSE,
                 !.timeout = [tv_sec |-> 0, tv_usec |-> 0],
                 !.recv_size = DefaultRecvSize,
                 !.sock_desc = NoDesc,
                 !.passive = FALSE]

\* net_socket::copy(nullptr)
CopyReset(self) ==
    [self EXCEPT !.net_proto = "ANY",
                 !.trans_proto = "TCP",
                 !.backlog = DefaultBacklog,
                 !.do_timeout = FALSE,
                 !.timeout = [tv_sec |-> 0, tv_usec |-> 0],
                 !.recv_size = DefaultRecvSize,
                 !.sock_desc = NoDesc,
                 !.passive = FALSE,
                 !.connected = FALSE]

\* move() that forgets _backlog
MoveFieldsNoBacklog(self, other) ==
    [self EXCEPT !.sock_desc = other.sock_desc,
                 !.net_proto = other.net_proto,
                 !.trans_proto = other.trans_proto,
                 !.passive = other.passive,
                 !.connected = other.connected,
                 !.do_timeout = other.do_timeout,
                 !.timeout = other.timeout,
                 !.recv_size = other.recv_size]

\* net_socket::move(other): the assignments to the members of *this
MoveFields(self, other) ==
    [self EXCEPT !.sock_desc = other.sock_desc,
                 !.net_proto = other.net_proto,
                 !.trans_proto = other.trans_proto,
                 !.passive = other.passive,
                 !.backlog = other.backlog,
                 !.connected = other.connected,
                 !.do_timeout = other.do_timeout,
                 !.timeout = other.timeout,
                 !.recv_size = other.recv_size]

\* move() that does not reset the source
MoveKeepSource(sf, d, s) == [sf EXCEPT ![d] = MoveFields(sf[d], sf[s])]

\* net_socket::move(other) on objects d (this) and s (other), which may be
\* the same object: the member assignments, then other->copy()
Move(sf, d, s) ==
    LET a == [sf EXCEPT ![d] = MoveFields(sf[d], sf[s])]
    IN  [a EXCEPT ![s] = CopyReset(a[s])]

\* net_socket(const net_socket& other) : net_socket() { copy(&other); }
copy_construct(d, s) ==
    /\ ~live[d] /\ live[s] /\ Tick /\ UNCHANGED iovars
    /\ LET r == Copy(DefaultSock, socks[s]) IN
       /\ last' = Ev("copy_construct", d, s, 0, r.err, 0)
       /\ IF r.err = "none"
          THEN /\ socks' = [socks EXCEPT ![d] = r.sk]
               /\ live' = [live EXCEPT ![d] = TRUE]
          ELSE UNCHANGED <<socks, live>>
    /\ UNCHANGED os

\* net_socket& operator=(const net_socket& rhs)
copy_assign(d, s) ==
    /\ live[d] /\ live[s] /\ Tick /\ UNCHANGED iovars
    /\ LET r == Copy(socks[d], socks[s]) IN
       /\ last' = Ev("copy_assign", d, s, 0, r.err, 0)
       /\ socks' = [socks EXCEPT ![d] = r.sk]
    /\ UNCHANGED <<live, os>>

\* net_socket(net_socket&& other) noexcept : net_socket() { move(&other); }
move_construct(d, s) ==
    /\ ~live[d] /\ live[s] /\ Tick /\ UNCHANGED iovars
    /\ socks' = Move([socks EXCEPT ![d] = DefaultSock], d, s)
    /\ live' = [live EXCEPT ![d] = TRUE]
    /\ last' = Ev("move_construct", d, s, 0, "none", 0)
    /\ UNCHANGED os

\* net_socket& operator=(net_socket&& rhs) noexcept
move_assign(d, s) ==
    /\ live[d] /\ live[s] /\ Tick /\ UNCHANGED iovars
    /\ socks' = Move(socks, d, s)
    /\ last' = Ev("move_assign", d, s, 0, "none", 0)
    /\ UNCHANGED <<live, os>>

\* ------------------------------------------------------------------- I/O
\* net_socket::send(data, max_size); r is the result of ::send()
Send(sk, r) ==
    IF ~sk.connected THEN [err |-> "illegal_state", ret |-> 0]
    ELSE IF r = -1 THEN [err |-> "resource", ret |-> 0]
    ELSE [err |-> "none", ret |-> r]

send(s) ==
    /\ live[s] /\ Tick /\ UNCHANGED iovars
    /\ \E max_size \in IoSizes :
         \E r \in -1..max_size :
           LET x == Send(socks[s], r) IN
           last' = Ev("send", s, 0, max_size, x.err, x.ret)
    /\ UNCHANGED <<socks, live, os>>

\* recv() that does not close the socket at the end of the stream
RecvNoClose(sk, t, max_size, sel, r) ==
    IF ~sk.connected THEN [err |-> "illegal_state", ret |-> 0, sk |-> sk, os |-> t]
    ELSE IF max_size = 0 THEN [err |-> "none", ret |-> 0, sk |-> sk, os |-> t]
    ELSE IF sk.do_timeout /\ sel = "error"
    THEN [err |-> "resource", ret |-> 0, sk |-> sk, os |-> t]
    ELSE IF sk.do_timeout /\ sel = "timeout"
    THEN [err |-> "timeout", ret |-> 0, sk |-> sk, os |-> t]
    ELSE IF r = -1 THEN [err |-> "resource", ret |-> 0, sk |-> sk, os |-> t]
    ELSE [err |-> "none", ret |-> r, sk |-> sk, os |-> t]

\* recv() that waits before it looks at max_size
RecvZeroWaits(sk, t, max_size, sel, r) ==
    IF ~sk.connected THEN [err |-> "illegal_state", ret |-> 0, sk |-> sk, os |-> t]
    ELSE IF sk.do_timeout /\ sel = "error"
    THEN [err |-> "resource", ret |-> 0, sk |-> sk, os |-> t]
    ELSE IF sk.do_timeout /\ sel = "timeout"
    THEN [err |-> "timeout", ret |-> 0, sk |-> sk, os |-> t]
    ELSE IF max_size = 0 THEN [err |-> "none", ret |-> 0, sk |-> sk, os |-> t]
    ELSE IF r = -1 THEN [err |-> "resource", ret |-> 0, sk |-> sk, os |-> t]
    ELSE IF r = 0
    THEN [err |-> "none", ret |-> 0, sk |-> CloseFields(sk), os |-> CloseOs(sk, t)]
    ELSE [err |-> "none", ret |-> r, sk |-> sk, os |-> t]

\* recv() that takes an elapsed deadline for the end of the stream
RecvTimeoutAsClose(sk, t, max_size, sel, r) ==
    IF ~sk.connected THEN [err |-> "illegal_state", ret |-> 0, sk |-> sk, os |-> t]
    ELSE IF max_size = 0 THEN [err |-> "none", ret |-> 0, sk |-> sk, os |-> t]
    ELSE IF sk.do_timeout /\ sel = "error"
    THEN [err |-> "resource", ret |-> 0, sk |-> sk, os |-> t]
    ELSE IF sk.do_timeout /\ sel = "timeout"
    THEN [err |-> "none", ret |-> 0, sk |-> CloseFields(sk), os |-> CloseOs(sk, t)]
    ELSE IF r = -1 THEN [err |-> "resource", ret |-> 0, sk |-> sk, os |-> t]
    ELSE IF r = 0
    THEN [err |-> "none", ret |-> 0, sk |-> CloseFields(sk), os |-> CloseOs(sk, t)]
    ELSE [err |-> "none", ret |-> r, sk |-> sk, os |-> t]

\* recv() that closes the socket when ::recv() fails
RecvCloseOnError(sk, t, max_size, sel, r) ==
    IF ~sk.connected THEN [err |-> "illegal_state", ret |-> 0, sk |-> sk, os |-> t]
    ELSE IF max_size = 0 THEN [err |-> "none", ret |-> 0, sk |-> sk, os |-> t]
    ELSE IF sk.do_timeout /\ sel = "error"
    THEN [err |-> "resource", ret |-> 0, sk |-> sk, os |-> t]
    ELSE IF sk.do_timeout /\ sel = "timeout"
    THEN [err |-> "timeout", ret |-> 0, sk |-> sk, os |-> t]
    ELSE IF r = -1
    THEN [err |-> "resource", ret |-> 0, sk |-> CloseFields(sk), os |-> CloseOs(sk, t)]
    ELSE IF r = 0
    THEN [err |-> "none", ret |-> 0, sk |-> CloseFields(sk), os |-> CloseOs(sk, t)]
    ELSE [err |-> "none", ret |-> r, sk |-> sk, os |-> t]

\* net_socket::recv(data, max_size); sel is what select() reports and r is
\* the result of ::recv()
Recv(sk, t, max_size, sel, r) ==
    IF ~sk.connected THEN [err |-> "illegal_state", ret |-> 0, sk |-> sk, os |-> t]
    ELSE IF max_size = 0 THEN [err |-> "none", ret |-> 0, sk |-> sk, os |-> t]
    ELSE IF sk.do_timeout /\ sel = "error"
    THEN [err |-> "resource", ret |-> 0, sk |-> sk, os |-> t]
    ELSE IF sk.do_timeout /\ sel = "timeout"
    THEN [err |-> "timeout", ret |-> 0, sk |-> sk, os |-> t]
    ELSE IF r = -1 THEN [err |-> "resource", ret |-> 0, sk |-> sk, os |-> t]
    ELSE IF r = 0
    THEN [err |-> "none", ret |-> 0, sk |-> CloseFields(sk), os |-> CloseOs(sk, t)]
    ELSE [err |-> "none", ret |-> r, sk |-> sk, os |-> t]

recv(s) ==
    /\ live[s] /\ Tick /\ UNCHANGED iovars
    /\ \E max_size \in IoSizes, sel \in {"ready", "timeout", "error"} :
         \E r \in -1..max_size :
           LET x == Recv(socks[s], os, max_size, sel, r) IN
           /\ socks' = [socks EXCEPT ![s] = x.sk]
           /\ os' = x.os
           /\ last' = Ev("recv", s, 0, max_size, x.err, x.ret)
    /\ UNCHANGED live

\* ------------------------------------------------------- specification
Next ==
    \/ \E s \in Socks : construct(s)
    \/ \E s \in Socks : destroy(s)
    \/ \E s \in Socks : close(s)
    \/ \E s \in Socks : set_network_protocol(s)
    \/ \E s \in Socks : set_transport_protocol(s)
    \/ \E s \in Socks : set_backlog(s)
    \/ \E s \in Socks : set_timeout(s)
    \/ \E s \in Socks : clear_timeout(s)
    \/ \E s \in Socks : set_recv_size(s)
    \/ \E s \in Socks : listen(s)
    \/ \E s \in Socks : connect(s)
    \/ \E s, n \in Socks : accept(s, n)
    \/ \E d, s \in Socks : copy_construct(d, s)
    \/ \E d, s \in Socks : copy_assign(d, s)
    \/ \E d, s \in Socks : move_construct(d, s)
    \/ \E d, s \in Socks : move_assign(d, s)
    \/ \E s \in Socks : send(s)
    \/ \E s \in Socks : recv(s)

Spec == Init /\ [][Next]_vars

TypeOK ==
    /\ live \in [Socks -> BOOLEAN]
    /\ os \in [Fds -> {"free", "listen", "conn"}]
    /\ nops \in 0..MaxOps
    /\ \A s \in Socks :
         /\ socks[s].sock_desc \in Fds \cup {NoDesc}
         /\ socks[s].net_proto \in NetProtos
         /\ socks[s].backlog \in Int
         /\ socks[s].passive \in BOOLEAN
         /\ socks[s].connected \in BOOLEAN

\* ======================================================= data transfer
\* One net_socket (object 1) and the other end of its connection.  The peer
\* sends the bytes 1, 2, 3, ... and may close; what the platform answers to
\* a receive is decided by what the peer has done.  A receive that would
\* wait for ever (nothing to read, peer open, no timeout) does not return,
\* so it is no step; data that arrives during a call is data that was
\* delivered in smaller pieces.

\* most bytes the peer sends on one connection
MaxIn == 2
\* most calls made on object 1
MaxIoOps == 3

\* chance, in percent, that packet_error_send() drops the packet
DropRate == 15

\* the buffer overloads: "raw" takes (const) void* and a size, "buffer" a
\* std::string or a std::vector<char>, which resolve the size alike
Overloads == {"raw", "buffer"}
\* size of the caller's string or vector before the call
BufLens == {0, 2}
\* the size argument of a call
SizeArgs == {0, 1, 3}
\* sizeof(T) of the elements of a vector<T>; 1 is also the string
Widths == {1, 2}
\* values of dist(*_rng), which are in 1..100: the two at the drop rate
Draws == {15, 16}
\* what the platform does with the attempts of one send_all(): attempt k
\* transmits at most pat[k] bytes, -1: ::send() fails; attempts past the
\* end of pat transmit all they are given
SendPatterns == {<<>>, <<1>>, <<1, 1>>, <<2, -1>>, <<-1>>}
\* the same for receive attempts: at most pat[k] bytes are delivered,
\* -1: ::recv() fails, -2: select() fails
RecvCaps == {-2, -1, 0, 1}
RecvPatterns == {<<>>, <<1>>, <<1, 1>>, <<1, -1>>, <<-2>>}

Min(a, b) == IF a < b THEN a ELSE b
Range(q) == {q[i] : i \in 1..Len(q)}
Take(q, n) == SubSeq(q, 1, n)
Drop(q, n) == SubSeq(q, n + 1, Len(q))
\* a caller's buffer of n distinct bytes
Buf(n) == [i \in 1..n |-> 100 + i]

\* the size that send(vector/string, max_size) and
\* packet_error_send(vector/string, max_size) pass on
SendSize(ov, len, max_size) ==
    IF ov = "raw" THEN max_size
    ELSE IF max_size = 0 \/ max_size > len THEN len
    ELSE max_size

\* the size that send_all(vector) and send_all(string) pass on
SendAllSize(ov, len, exact_size) == IF ov = "raw" THEN exact_size ELSE len

\* the size that recv / recv_all (vector/string, size) pass on
\* that takes the size of a buffer that is not empty before the argument
RecvSizeBufferFirst(ov, len, w, max_size, recv_size) ==
    IF ov = "raw" THEN max_size
    ELSE IF len # 0 THEN len * w
    ELSE IF max_size # 0 THEN max_size
    ELSE recv_size

\* len is data.size() or data.length(), w is sizeof(T)
RecvSize(ov, len, w, max_size, recv_size) ==
    IF ov = "raw" THEN max_size
    ELSE IF max_size # 0 THEN max_size
    ELSE IF len = 0 THEN recv_size
    ELSE len * w

\* the number of elements of the vector or string after a call that returned
\* ss: recv() ends with data.resize(ss) and data.assign(tmp, tmp + ss),
\* recv_all() with data.resize(ss/sizeof(T)) and data.assign(tmp, tmp + ss)
ContainerAfter(op, ss, w) == IF op = "recv" THEN ss ELSE ss \div w

\* packet_error_send() that relies on send() for the state check
PacketErrorSendNoCheck(sk, max_size, draw, r) ==
    IF draw <= DropRate
    THEN [err |-> "none", ret |-> max_size, n |-> 0, calls |-> <<>>]
    ELSE LET x == Send(sk, r) IN
         [err |-> x.err, ret |-> x.ret,
          n |-> IF x.err = "none" THEN x.ret ELSE 0,
          calls |-> IF sk.connected THEN <<"send">> ELSE <<>>]

\* packet_error_send() that drops the packet when the draw is below _drop_rate
PacketErrorSendBelowRate(sk, max_size, draw, r) ==
    IF ~sk.connected
    THEN [err |-> "illegal_state", ret |-> 0, n |-> 0, calls |-> <<>>]
    ELSE IF draw < DropRate
    THEN [err |-> "none", ret |-> max_size, n |-> 0, calls |-> <<>>]
    ELSE LET x == Send(sk, r) IN
         [err |-> x.err, ret |-> x.ret,
          n |-> IF x.err = "none" THEN x.ret ELSE 0,
          calls |-> <<"send">>]

\* net_socket::packet_error_send(data, max_size); draw is dist(*_rng), r the
\* result of ::send(); n is the number of bytes transmitted
PacketErrorSend(sk, max_size, draw, r) ==
    IF ~sk.connected
    THEN [err |-> "illegal_state", ret |-> 0, n |-> 0, calls |-> <<>>]
    ELSE IF draw <= DropRate
    THEN [err |-> "none", ret |-> max_size, n |-> 0, calls |-> <<>>]
    ELSE LET x == Send(sk, r) IN
         [err |-> x.err, ret |-> x.ret,
          n |-> IF x.err = "none" THEN x.ret ELSE 0,
          calls |-> <<"send">>]

\* results of one ::send() of size bytes: failure, one byte, all bytes
SendResults(size) == {-1, Min(1, size), size}

\* the result of ::send() for attempt k of a loop that hands it req bytes
SendOutcome(pat, k, req) ==
    IF k > Len(pat) THEN req
    ELSE IF pat[k] = -1 THEN -1
    ELSE Min(pat[k], req)

\* send_all() whose attempts all start at the beginning of the data
RECURSIVE SendAllFromStartLoop(_, _, _, _, _)
SendAllFromStartLoop(sk, exact_size, pat, sent, att) ==
    IF ~(sent < exact_size) THEN [err |-> "none", ret |-> sent, att |-> att]
    ELSE LET req == exact_size - sent
             x == Send(sk, SendOutcome(pat, Len(att) + 1, req))
         IN  IF x.err # "none"
             THEN [err |-> x.err, ret |-> 0,
                   att |-> Append(att, [off |-> 0, req |-> req, n |-> 0])]
             ELSE SendAllFromStartLoop(sk, exact_size, pat, sent + x.ret,
                      Append(att, [off |-> 0, req |-> req, n |-> x.ret]))

SendAllFromStart(sk, exact_size, pat) ==
    IF ~sk.connected THEN [err |-> "illegal_state", ret |-> 0, att |-> <<>>]
    ELSE SendAllFromStartLoop(sk, exact_size, pat, 0, <<>>)

\* the loop of send_all() with a handler that tries again after a failure
RECURSIVE SendAllLoopRetries(_, _, _, _, _)
SendAllLoopRetries(sk, exact_size, pat, sent, att) ==
    IF ~(sent < exact_size) THEN [err |-> "none", ret |-> sent, att |-> att]
    ELSE LET req == exact_size - sent
             x == Send(sk, SendOutcome(pat, Len(att) + 1, req))
         IN  IF x.err # "none"
             THEN SendAllLoopRetries(sk, exact_size, pat, sent,
                      Append(att, [off |-> sent, req |-> req, n |-> 0]))
             ELSE SendAllLoopRetries(sk, exact_size, pat, sent + x.ret,
                      Append(att, [off |-> sent, req |-> req, n |-> x.ret]))

\* the while loop of send_all(): sent += send(d + sent, exact_size - sent);
\* att lists, for every attempt, the offset it starts at, the size it
\* hands to send() and the number of bytes transmitted
RECURSIVE SendAllLoop(_, _, _, _, _)
SendAllLoop(sk, exact_size, pat, sent, att) ==
    IF ~(sent < exact_size) THEN [err |-> "none", ret |-> sent, att |-> att]
    ELSE LET req == exact_size - sent
             x == Send(sk, SendOutcome(pat, Len(att) + 1, req))
         IN  IF x.err # "none"
             THEN [err |-> x.err, ret |-> 0,
                   att |-> Append(att, [off |-> sent, req |-> req, n |-> 0])]
             ELSE SendAllLoop(sk, exact_size, pat, sent + x.ret,
                      Append(att, [off |-> sent, req |-> req, n |-> x.ret]))

\* send_all() that makes one attempt and takes all of it as sent
SendAllOneAttempt(sk, exact_size, pat) ==
    IF ~sk.connected THEN [err |-> "illegal_state", ret |-> 0, att |-> <<>>]
    ELSE IF exact_size = 0 THEN [err |-> "none", ret |-> 0, att |-> <<>>]
    ELSE LET x == Send(sk, SendOutcome(pat, 1, exact_size))
         IN  IF x.err # "none"
             THEN [err |-> x.err, ret |-> 0,
                   att |-> <<[off |-> 0, req |-> exact_size, n |-> 0]>>]
             ELSE [err |-> "none", ret |-> exact_size,
                   att |-> <<[off |-> 0, req |-> exact_size, n |-> x.ret]>>]

\* net_socket::send_all(data, exact_size)
SendAll(sk, exact_size, pat) ==
    IF ~sk.connected THEN [err |-> "illegal_state", ret |-> 0, att |-> <<>>]
    ELSE SendAllLoop(sk, exact_size, pat, 0, <<>>)

\* the bytes the attempts att put on the wire: attempt k transmits n bytes
\* starting at data + off
RECURSIVE Transmitted(_, _)
Transmitted(data, att) ==
    IF att = <<>> THEN <<>>
    ELSE SubSeq(data, att[1].off + 1, att[1].off + att[1].n)
             \o Transmitted(data, Tail(att))

\* what select() and ::recv() answer to one attempt for req > 0 bytes when q
\* is unread and the peer has (pc) or has not closed.  cap: -2 select()
\* fails, -1 ::recv() fails, 0 no limit, else the most bytes delivered at
\* once; blocks: the attempt does not return
EnvRecv(sk, q, pc, req, cap) ==
    [sel |-> IF cap = -2 THEN "error"
             ELSE IF q # <<>> \/ pc THEN "ready" ELSE "timeout",
     r |-> IF cap = -1 THEN -1
           ELSE IF q = <<>> THEN 0
           ELSE Min(IF cap < 1 THEN req ELSE cap, Min(req, Len(q))),
     blocks |-> ~sk.do_timeout /\ q = <<>> /\ ~pc /\ cap # -1]

\* struct timeval tmp_tv = _timeout: every select() is given the whole
\* timeout, and _timeout itself is not counted down
SelectDeadline(sk) == sk.timeout

\* the platform calls one recv(data, max_size) makes
RecvCalls(sk, max_size, sel) ==
    IF ~sk.connected \/ max_size = 0 THEN <<>>
    ELSE IF sk.do_timeout /\ sel # "ready" THEN <<"select">>
    ELSE IF sk.do_timeout THEN <<"select", "recv">>
    ELSE <<"recv">>

\* the exception recv() throws when select() returns 0: timeout_exception(),
\* whose partial data size is the default of the member.  recv_all() has no
\* handler, so this is the exception its caller catches
TimeoutException == [partial_data_size |-> 0]

\* recv_all() whose attempts all ask for exact_size bytes
RECURSIVE RecvAllFullRequestLoop(_, _, _, _, _, _, _, _)
RecvAllFullRequestLoop(sk, t, q, pc, exact_size, pat, rcvd, att) ==
    IF ~(rcvd < exact_size)
    THEN [err |-> "none", ret |-> rcvd, rcvd |-> rcvd, sk |-> sk, os |-> t, att |-> att]
    ELSE LET req == exact_size
             k == Len(att) + 1
             e == EnvRecv(sk, q, pc, req, IF k > Len(pat) THEN 0 ELSE pat[k])
             x == Recv(sk, t, req, e.sel, e.r)
             a == Append(att, [off |-> rcvd, req |-> req,
                               n |-> IF x.err = "none" THEN x.ret ELSE 0])
         IN  IF e.blocks
             THEN [err |-> "blocked", ret |-> 0, rcvd |-> rcvd, sk |-> sk, os |-> t, att |-> att]
             ELSE IF x.err # "none"
             THEN [err |-> x.err, ret |-> 0, rcvd |-> rcvd, sk |-> x.sk, os |-> x.os, att |-> a]
             ELSE IF x.ret = 0
             THEN [err |-> "none", ret |-> rcvd, rcvd |-> rcvd, sk |-> x.sk, os |-> x.os, att |-> a]
             ELSE RecvAllFullRequestLoop(x.sk, x.os, Drop(q, x.ret), pc, exact_size, pat,
                                         rcvd + x.ret, a)

RecvAllFullRequest(sk, t, q, pc, exact_size, pat) ==
    IF ~sk.connected
    THEN [err |-> "illegal_state", ret |-> 0, rcvd |-> 0, sk |-> sk, os |-> t, att |-> <<>>]
    ELSE RecvAllFullRequestLoop(sk, t, q, pc, exact_size, pat, 0, <<>>)

\* the while loop of recv_all(): rs = recv(d + rcvd, exact_size - rcvd);
\* if( rs == 0 ) break; rcvd += rs.  An exception of recv() leaves the loop
\* with rcvd bytes stored; err "blocked": the call does not return
RECURSIVE RecvAllLoop(_, _, _, _, _, _, _, _)
RecvAllLoop(sk, t, q, pc, exact_size, pat, rcvd, att) ==
    IF ~(rcvd < exact_size)
    THEN [err |-> "none", ret |-> rcvd, rcvd |-> rcvd, sk |-> sk, os |-> t, att |-> att]
    ELSE LET req == exact_size - rcvd
             k == Len(att) + 1
             e == EnvRecv(sk, q, pc, req, IF k > Len(pat) THEN 0 ELSE pat[k])
             x == Recv(sk, t, req, e.sel, e.r)
             a == Append(att, [off |-> rcvd, req |-> req,
                               n |-> IF x.err = "none" THEN x.ret ELSE 0])
         IN  IF e.blocks
             THEN [err |-> "blocked", ret |-> 0, rcvd |-> rcvd, sk |-> sk, os |-> t, att |-> att]
             ELSE IF x.err # "none"
             THEN [err |-> x.err, ret |-> 0, rcvd |-> rcvd, sk |-> x.sk, os |-> x.os, att |-> a]
             ELSE IF x.ret = 0
             THEN [err |-> "none", ret |-> rcvd, rcvd |-> rcvd, sk |-> x.sk, os |-> x.os, att |-> a]
             ELSE RecvAllLoop(x.sk, x.os, Drop(q, x.ret), pc, exact_size, pat,
                              rcvd + x.ret, a)

\* net_socket::recv_all(data, exact_size) while q is unread
RecvAll(sk, t, q, pc, exact_size, pat) ==
    IF ~sk.connected
    THEN [err |-> "illegal_state", ret |-> 0, rcvd |-> 0, sk |-> sk, os |-> t, att |-> <<>>]
    ELSE RecvAllLoop(sk, t, q, pc, exact_size, pat, 0, <<>>)

\* the sum of the bytes moved by the first k attempts
RECURSIVE Moved(_, _)
Moved(att, k) == IF k = 0 THEN 0 ELSE Moved(att, k - 1) + att[k].n

IoTick == /\ nops < MaxIoOps
          /\ nops' = nops + 1
          /\ UNCHANGED <<live, last>>
          /\ UNCHANGED avars
          /\ UNCHANGED ra

\* connect() of object 1 to a peer that starts a new stream
io_connect ==
    /\ IoTick
    /\ \E outs \in {<<"ok">>, <<"fail">>} :
         LET x == Connect(socks[1], os, outs) IN
         /\ socks' = [socks EXCEPT ![1] = x.sk]
         /\ os' = x.os
         /\ io' = IoEv("connect", "raw", 0, 0, x.err, 0)
         /\ IF x.err = "none"
            THEN inq' = <<>> /\ peer' = NoPeer /\ wire' = <<>> /\ rx' = NoRx
            ELSE UNCHANGED <<inq, peer, wire, rx>>

\* listen() of object 1
io_listen ==
    /\ IoTick
    /\ LET x == Listen(socks[1], os, <<"ok">>, TRUE) IN
       /\ socks' = [socks EXCEPT ![1] = x.sk]
       /\ os' = x.os
       /\ io' = IoEv("listen", "raw", 0, 0, x.err, 0)
    /\ UNCHANGED <<inq, peer, wire, rx>>

\* close() of object 1
io_close ==
    /\ IoTick
    /\ socks' = [socks EXCEPT ![1] = CloseFields(socks[1])]
    /\ os' = CloseOs(socks[1], os)
    /\ io' = IoEv("close", "raw", 0, 0, "none", 0)
    /\ UNCHANGED <<inq, peer, wire, rx>>

\* set_timeout() of object 1
io_set_timeout ==
    /\ IoTick
    /\ \E q \in {0, 1500000000} :
         LET x == SetTimeout(socks[1], q) IN
         /\ socks' = [socks EXCEPT ![1] = x.sk]
         /\ io' = IoEv("set_timeout", "raw", q, 0, x.err, 0)
    /\ UNCHANGED <<os, inq, peer, wire, rx>>

\* a receiving call has ended with err after it took the bytes data from the
\* connection: a call that returns gives them to its caller
Received(r, data, err) ==
    IF err = "none" THEN [r EXCEPT !.got = r.got \o data]
    ELSE [r EXCEPT !.skipped = r.skipped \/ data # <<>>]

\* the bytes of the payloads the peer has passed to its sending calls, in
\* the order of the calls: the peer numbers its bytes
Stream(n) == [i \in 1..n |-> i]

\* the net_socket of the peer: it is connected
PeerSock == [DefaultSock EXCEPT !.connected = TRUE]

\* what ::send() does with the attempts of the peer: it takes all or a part
PeerPatterns == {p \in SendPatterns : \A k \in 1..Len(p) : p[k] > 0}

\* the peer passes its next len bytes to send_all()
peer_send_all ==
    /\ socks[1].connected
    /\ ~peer.closed
    /\ \E len \in 1..(MaxIn - peer.sent), pat \in PeerPatterns :
         LET data == [i \in 1..len |-> peer.sent + i]
             x == SendAll(PeerSock, len, pat) IN
         /\ x.err = "none"
         /\ peer' = [peer EXCEPT !.sent = peer.sent + x.ret]
         /\ inq' = inq \o Transmitted(data, x.att)
    /\ UNCHANGED <<socks, live, os, last, nops, wire, io, rx>>
    /\ UNCHANGED avars
    /\ UNCHANGED ra

\* the peer sends its next byte
peer_send ==
    /\ socks[1].connected
    /\ ~peer.closed
    /\ peer.sent < MaxIn
    /\ peer' = [peer EXCEPT !.sent = peer.sent + 1]
    /\ inq' = Append(inq, peer.sent + 1)
    /\ UNCHANGED <<socks, live, os, last, nops, wire, io, rx>>
    /\ UNCHANGED avars
    /\ UNCHANGED ra

\* the peer closes its end
peer_close ==
    /\ socks[1].connected
    /\ ~peer.closed
    /\ peer' = [peer EXCEPT !.closed = TRUE]
    /\ UNCHANGED <<socks, live, os, last, nops, inq, wire, io, rx>>
    /\ UNCHANGED avars
    /\ UNCHANGED ra

\* arguments of a sending call: a const void* comes with max_size bytes
SendArgs ==
    {a \in [ov : Overloads, len : BufLens \cup SizeArgs, arg : SizeArgs] :
        IF a.ov = "raw" THEN a.len = a.arg ELSE a.len \in BufLens}

\* send(data, max_size) on object 1
io_send ==
    /\ IoTick
    /\ \E a \in SendArgs :
         LET size == SendSize(a.ov, a.len, a.arg) IN
         \E r \in SendResults(size) :
           LET x == Send(socks[1], r)
               tx == IF x.err = "none" THEN Take(Buf(a.len), x.ret) ELSE <<>> IN
           /\ io' = [IoEv("send", a.ov, a.arg, size, x.err, x.ret) EXCEPT
                        !.tx = tx, !.len = a.len,
                        !.calls = IF socks[1].connected THEN <<"send">> ELSE <<>>]
           /\ wire' = wire \o tx
    /\ UNCHANGED <<socks, os, inq, peer, rx>>

\* packet_error_send(data, max_size) on object 1
io_packet_error_send ==
    /\ IoTick
    /\ \E a \in SendArgs, draw \in Draws :
         LET size == SendSize(a.ov, a.len, a.arg) IN
         \E r \in SendResults(size) :
           LET x == PacketErrorSend(socks[1], size, draw, r)
               tx == Take(Buf(a.len), x.n) IN
           /\ io' = [IoEv("packet_error_send", a.ov, a.arg, size, x.err, x.ret) EXCEPT
                        !.tx = tx, !.len = a.len, !.calls = x.calls, !.draw = draw]
           /\ wire' = wire \o tx
    /\ UNCHANGED <<socks, os, inq, peer, rx>>

\* send_all(data, exact_size) on object 1
io_send_all ==
    /\ IoTick
    /\ \E a \in SendArgs, pat \in SendPatterns :
         LET size == SendAllSize(a.ov, a.len, a.arg)
             x == SendAll(socks[1], size, pat)
             tx == Transmitted(Buf(a.len), x.att) IN
         /\ io' = [IoEv("send_all", a.ov, a.arg, size, x.err, x.ret) EXCEPT
                      !.tx = tx, !.len = a.len, !.att = x.att,
                      !.calls = [k \in 1..Len(x.att) |-> "send"]]
         /\ wire' = wire \o tx
    /\ UNCHANGED <<socks, os, inq, peer, rx>>

\* arguments of a receiving call: a void* comes with room for max_size bytes
\* bytes; a vector<T> or a string has len elements of w = sizeof(T) bytes, and
\* the vectors of wider elements come without a size argument
RecvArgs ==
    {a \in [ov : Overloads, len : BufLens \cup SizeArgs, w : Widths, arg : SizeArgs] :
        IF a.ov = "raw" THEN a.len = a.arg /\ a.w = 1
        ELSE a.len \in BufLens /\ (a.w > 1 => a.arg = 0)}

\* recv(data, max_size) on object 1
io_recv ==
    /\ IoTick
    /\ \E a \in RecvArgs, cap \in RecvCaps :
         LET size == RecvSize(a.ov, a.len, a.w, a.arg, socks[1].recv_size)
             e == EnvRecv(socks[1], inq, peer.closed, size, cap)
             x == Recv(socks[1], os, size, e.sel, e.r)
             n == IF x.err = "none" THEN x.ret ELSE 0 IN
         /\ ~(socks[1].connected /\ size > 0 /\ e.blocks)
         /\ socks' = [socks EXCEPT ![1] = x.sk]
         /\ os' = x.os
         /\ inq' = Drop(inq, n)
         /\ rx' = Received(rx, Take(inq, n), x.err)
         /\ io' = [IoEv("recv", a.ov, a.arg, size, x.err, x.ret) EXCEPT
                      !.data = Take(inq, n),
                      !.len = a.len, !.w = a.w,
                      !.cont = IF x.err = "none" /\ a.ov # "raw"
                               THEN ContainerAfter("recv", x.ret, a.w) ELSE 0,
                      !.calls = RecvCalls(socks[1], size, e.sel),
                      !.rcvd = n,
                      !.sel = e.sel,
                      !.wait = IF "select" \in Range(RecvCalls(socks[1], size, e.sel))
                               THEN SelectDeadline(socks[1])
                               ELSE [tv_sec |-> 0, tv_usec |-> 0]]
    /\ UNCHANGED <<peer, wire>>

\* recv_all(data, exact_size) on object 1
io_recv_all ==
    /\ IoTick
    /\ \E a \in RecvArgs, pat \in RecvPatterns :
         LET size == RecvSize(a.ov, a.len, a.w, a.arg, socks[1].recv_size)
             x == RecvAll(socks[1], os, inq, peer.closed, size, pat) IN
         /\ x.err # "blocked"
         /\ socks' = [socks EXCEPT ![1] = x.sk]
         /\ os' = x.os
         /\ inq' = Drop(inq, x.rcvd)
         /\ rx' = Received(rx, Take(inq, x.rcvd), x.err)
         /\ io' = [IoEv("recv_all", a.ov, a.arg, size, x.err, x.ret) EXCEPT
                      !.data = Take(inq, x.rcvd),
                      !.len = a.len, !.w = a.w,
                      !.cont = IF x.err = "none" /\ a.ov # "raw"
                               THEN ContainerAfter("recv_all", x.ret, a.w) ELSE 0,
                      !.att = x.att,
                      !.rcvd = x.rcvd]
    /\ UNCHANGED <<peer, wire>>

NextIO ==
    \/ io_connect
    \/ io_listen
    \/ io_close
    \/ io_set_timeout
    \/ peer_send
    \/ peer_send_all
    \/ peer_close
    \/ io_send
    \/ io_packet_error_send
    \/ io_send_all
    \/ io_recv
    \/ io_recv_all

SpecIO == Init /\ [][NextIO]_vars

IoOps == {"send", "packet_error_send", "send_all", "recv", "recv_all"}

\* ================================================================ address
\* the value of sa_family: AF_INET, AF_INET6 and one other
Families == {"AF_INET", "AF_INET6", "AF_UNIX"}

\* htons() and ntohs() of a little-endian host: the two bytes change places
Htons(p) == (p % 256) * 256 + (p \div 256)
Ntohs(p) == (p % 256) * 256 + (p \div 256)

\* port numbers in host byte order
PortInputs == {12345, 34567}

\* inet_pton(AF_INET, s): the four bytes, or <<>> when s is no IPv4 address
Pton4(s) ==
    CASE s = "192.168.11.212" -> <<192, 168, 11, 212>>
      [] s = "132.168.11.212" -> <<132, 168, 11, 212>>
      [] OTHER -> <<>>

\* inet_pton(AF_INET6, s): the eight groups, or <<>> when s is no IPv6 address
Pton6(s) ==
    CASE s = "ffe0::1" -> <<65504, 0, 0, 0, 0, 0, 0, 1>>
      [] s = "1:abcd:1234:fedc:0:6789:a5a5:4567" -> <<1, 43981, 4660, 65244, 0, 26505, 42405, 17767>>
      [] OTHER -> <<>>

\* texts passed to set_address()
AddrTexts == {"192.168.11.212", "132.168.11.212", "ffe0::1", "34", "345::4324::ABBB"}

\* struct sockaddr_in and struct sockaddr with any family tag
SockaddrIns ==
    [family : Families, port : {Htons(p) : p \in PortInputs},
     addr : {Pton4("192.168.11.212")}, flow : {0}, scope : {0}]

\* struct sockaddr_in6 with any family tag
SockaddrIn6s ==
    [family : Families, port : {Htons(p) : p \in PortInputs},
     addr : {Pton6("1:abcd:1234:fedc:0:6789:a5a5:4567")}, flow : {0, 3}, scope : {0, 3}]

\* struct sockaddr_storage: one that holds a sockaddr_in, with anything
\* behind it, or a sockaddr_in6, or one with another family tag
SockaddrStorages ==
    [family : {"AF_INET", "AF_UNIX"}, port : {Htons(12345)},
     addr : {Pton4("192.168.11.212")}, flow : {0}, scope : {0, 3}]
    \cup {s \in SockaddrIn6s : s.family # "AF_INET" /\ s.flow = s.scope}

Forms == {"sockaddr", "sockaddr_storage", "sockaddr_in", "sockaddr_in6"}

Structs(form) ==
    CASE form = "sockaddr" -> SockaddrIns
      [] form = "sockaddr_storage" -> SockaddrStorages
      [] form = "sockaddr_in" -> SockaddrIns
      [] form = "sockaddr_in6" -> SockaddrIn6s

\* address::operator=(const struct sockaddr&): 16 bytes are copied
AssignSockaddr(a, s) ==
    IF s.family # "AF_INET" THEN [err |-> "format", a |-> a]
    ELSE [err |-> "none", a |-> [ZeroAddr EXCEPT !.family = s.family, !.port = s.port, !.addr = s.addr]]

\* address::operator=(const struct sockaddr_storage&) that takes any family
AssignStorageAnyFamily(a, s) == [err |-> "none", a |-> s]

\* address::operator=(const struct sockaddr_storage&): the whole storage is
\* copied
AssignStorage(a, s) ==
    IF s.family # "AF_INET" /\ s.family # "AF_INET6" THEN [err |-> "format", a |-> a]
    ELSE [err |-> "none", a |-> s]

\* address::operator=(const struct sockaddr_in&)
AssignSockaddrIn(a, s) ==
    IF s.family # "AF_INET" THEN [err |-> "format", a |-> a]
    ELSE [err |-> "none", a |-> [ZeroAddr EXCEPT !.family = s.family, !.port = s.port, !.addr = s.addr]]

\* address::operator=(const struct sockaddr_in6&)
AssignSockaddrIn6(a, s) ==
    IF s.family # "AF_INET6" THEN [err |-> "format", a |-> a]
    ELSE [err |-> "none", a |-> [ZeroAddr EXCEPT !.family = s.family, !.port = s.port, !.addr = s.addr,
                                                 !.flow = s.flow, !.scope = s.scope]]

Assign(a, form, s) ==
    CASE form = "sockaddr" -> AssignSockaddr(a, s)
      [] form = "sockaddr_storage" -> AssignStorage(a, s)
      [] form = "sockaddr_in" -> AssignSockaddrIn(a, s)
      [] form = "sockaddr_in6" -> AssignSockaddrIn6(a, s)

is_ipv4(a) == a.family = "AF_INET"
is_ipv6(a) == a.family = "AF_INET6"

\* address::get_port(): sin_port of an AF_INET address, sin6_port otherwise
get_port(a) == Ntohs(a.port)

\* address::set_port(num)
SetPort(a, num) == [a EXCEPT !.port = Htons(num)]

\* set_address() that clears the structure before it looks at the parses
SetAddressClearsFirst(a, s) ==
    LET tmp4 == Pton4(s)
        tmp6 == Pton6(s)
        z == [ZeroAddr EXCEPT !.family = a.family, !.port = a.port]
    IN IF tmp4 = <<>> /\ tmp6 = <<>> THEN [err |-> "format", a |-> z]
       ELSE IF tmp4 # <<>>
       THEN [err |-> "none", a |-> [z EXCEPT !.family = "AF_INET", !.addr = tmp4]]
       ELSE [err |-> "none", a |-> [z EXCEPT !.family = "AF_INET6", !.addr = tmp6]]

\* address::set_address(s): both parses are made first; a text that is
\* neither is refused; on a change of family the structure is cleared and the
\* port put back, then the parsed bytes are copied in
SetAddress(a, s) ==
    LET tmp4 == Pton4(s)
        tmp6 == Pton6(s)
    IN IF tmp4 = <<>> /\ tmp6 = <<>> THEN [err |-> "format", a |-> a]
       ELSE IF tmp4 # <<>>
       THEN [err |-> "none",
             a |-> IF a.family # "AF_INET"
                   THEN [ZeroAddr EXCEPT !.family = "AF_INET", !.port = a.port, !.addr = tmp4]
                   ELSE [a EXCEPT !.addr = tmp4]]
       ELSE [err |-> "none",
             a |-> IF a.family # "AF_INET6"
                   THEN [ZeroAddr EXCEPT !.family = "AF_INET6", !.port = a.port, !.addr = tmp6]
                   ELSE [a EXCEPT !.addr = tmp6]]

\* operator== that leaves sin6_scope_id out
AddrEqNoScope(a, b) ==
    IF is_ipv4(a) # is_ipv4(b) THEN FALSE
    ELSE IF is_ipv4(a)
    THEN a.family = b.family /\ a.port = b.port /\ a.addr = b.addr
    ELSE /\ a.family = b.family /\ a.port = b.port /\ a.flow = b.flow
         /\ a.addr = b.addr

\* operator==(const address&, const address&)
AddrEq(a, b) ==
    IF is_ipv4(a) # is_ipv4(b) THEN FALSE
    ELSE IF is_ipv4(a)
    THEN a.family = b.family /\ a.port = b.port /\ a.addr = b.addr
    ELSE /\ a.family = b.family /\ a.port = b.port /\ a.flow = b.flow
         /\ a.addr = b.addr /\ a.scope = b.scope

AddrTick == /\ nops < MaxAddrOps
            /\ nops' = nops + 1
            /\ UNCHANGED <<socks, live, os, last>>
            /\ UNCHANGED iovars
            /\ UNCHANGED ra

\* address a; in the place of object i
addr_default(i) ==
    /\ AddrTick
    /\ addrs' = [addrs EXCEPT ![i] = ZeroAddr]
    /\ alast' = AEv("default", i, "none", 0, "none")

\* address a(s); in the place of object i: the constructors are *this = s,
\* and the object is not made when the assignment throws
addr_construct(i) ==
    /\ AddrTick
    /\ \E form \in Forms : \E s \in Structs(form) :
         LET r == Assign(ZeroAddr, form, s)
         IN /\ addrs' = IF r.err = "none" THEN [addrs EXCEPT ![i] = r.a] ELSE addrs
            /\ alast' = AEv("construct", i, form, s, r.err)

\* a = s for a structure s
addr_assign(i) ==
    /\ AddrTick
    /\ \E form \in Forms : \E s \in Structs(form) :
         LET r == Assign(addrs[i], form, s)
         IN /\ addrs' = [addrs EXCEPT ![i] = r.a]
            /\ alast' = AEv("assign", i, form, s, r.err)

\* a = b and address a(b): addr = other.get_sockaddr()
addr_copy(i, j) ==
    /\ AddrTick
    /\ addrs' = [addrs EXCEPT ![i] = addrs[j]]
    /\ alast' = AEv("copy", i, "none", j, "none")

addr_set_port(i) ==
    /\ AddrTick
    /\ \E num \in PortInputs \cup {get_port(addrs[i]) + 1} :
         /\ addrs' = [addrs EXCEPT ![i] = SetPort(addrs[i], num % 65536)]
         /\ alast' = AEv("set_port", i, "none", num % 65536, "none")

addr_set_address(i) ==
    /\ AddrTick
    /\ \E s \in AddrTexts :
         LET r == SetAddress(addrs[i], s)
         IN /\ addrs' = [addrs EXCEPT ![i] = r.a]
            /\ alast' = AEv("set_address", i, "none", s, r.err)

NextAddr ==
    \/ \E i \in Addrs : addr_default(i)
    \/ \E i \in Addrs : addr_construct(i)
    \/ \E i \in Addrs : addr_assign(i)
    \/ \E i, j \in Addrs : addr_copy(i, j)
    \/ \E i \in Addrs : addr_set_port(i)
    \/ \E i \in Addrs : addr_set_address(i)

SpecAddr == Init /\ [][NextAddr]_vars

\* ================================================================ claims
CopyOps == {"copy_construct", "copy_assign"}
MoveOps == {"move_construct", "move_assign"}

\* C1: in every reachable state no net_socket has both _passive and
\* _connected set.
C1_NotPassiveAndConnected ==
    \A s \in Socks : ~(socks[s].passive /\ socks[s].connected)

\* connect() has just been refused on a passive socket
C1_Witness ==
    /\ last.op = "connect"
    /\ last.err = "illegal_state"
    /\ socks[last.s].passive

\* C2: no two live objects hold the same descriptor (after a copy, a move or
\* an accept as after anything else).
C2_DescriptorsDistinct ==
    \A s, u \in Socks :
        (s # u /\ live[s] /\ live[u] /\ socks[s].sock_desc # NoDesc)
            => socks[s].sock_desc # socks[u].sock_desc

\* a move has just handed a descriptor from one object to another
C2_Witness ==
    /\ last.op \in MoveOps
    /\ last.s # last.o
    /\ socks[last.s].sock_desc # NoDesc
    /\ live[last.o]

\* C3: every descriptor that is open is held by a live object (which releases
\* it in close() or in its destructor).
C3_EveryOpenDescriptorOwned ==
    \A f \in Fds :
        os[f] # "free" => \E s \in Socks : live[s] /\ socks[s].sock_desc = f

\* C4: close() never raises; afterwards the object holds no descriptor, is
\* neither passive nor connected and has the configuration it had before;
\* on an object without a descriptor close() changes nothing.
C4_Close ==
    [][last'.op = "close" =>
         /\ last'.err = "none"
         /\ socks'[last'.s].sock_desc = NoDesc
         /\ ~socks'[last'.s].passive
         /\ ~socks'[last'.s].connected
         /\ Config(socks'[last'.s]) = Config(socks[last'.s])
         /\ (socks[last'.s].sock_desc = NoDesc =>
                 /\ socks' = socks
                 /\ os' = os
                 /\ live' = live)]_vars

\* close() has just released the descriptor of a passive or connected socket
C4_Witness ==
    /\ last.op = "close"
    /\ last.arg # NoDesc

\* C5: when an object that holds a descriptor is destroyed, that descriptor
\* is closed, and no other descriptor is touched.
C5_DestructorReleases ==
    [][(last'.op = "destroy" /\ socks[last'.s].sock_desc # NoDesc) =>
         /\ os'[socks[last'.s].sock_desc] = "free"
         /\ \A g \in Fds : g # socks[last'.s].sock_desc => os'[g] = os[g]]_vars

\* an object holding a descriptor has just been destroyed
C5_Witness ==
    /\ last.op = "destroy"
    /\ last.arg # NoDesc

\* C6: on a passive or connected socket set_network_protocol and
\* set_transport_protocol raise illegal-state for every argument, set_backlog
\* raises illegal-state for every non-negative argument, and the object is left
\* as it was.
C6_SettersRefusedWhenOpen ==
    [][(/\ IsOpen(socks[last'.s])
        /\ \/ last'.op \in {"set_network_protocol", "set_transport_protocol"}
           \/ (last'.op = "set_backlog" /\ last'.arg >= 0)) =>
         /\ last'.err = "illegal_state"
         /\ socks'[last'.s] = socks[last'.s]]_vars

\* C7: a copy (construction or assignment) raises illegal-state whenever the
\* source or the destination is passive or connected, and then changes no
\* object and no descriptor.
C7_CopyRefusedWhenOpen ==
    [][(/\ last'.op \in CopyOps
        /\ (IsOpen(socks[last'.s]) \/ IsOpen(socks[last'.o]))) =>
         /\ last'.err = "illegal_state"
         /\ socks' = socks
         /\ os' = os
         /\ live' = live]_vars

\* a copy from a connected socket into an unopened one has just been refused
C7_Witness ==
    /\ last.op \in CopyOps
    /\ last.err = "illegal_state"
    /\ socks[last.o].connected
    /\ ~IsOpen(socks[last.s])

\* C8: a copy between two unopened sockets gives the destination the source's
\* configuration, leaves it without descriptor, neither passive nor connected,
\* and leaves the source as it was.
C8_CopyUnopened ==
    [][(/\ last'.op \in CopyOps
        /\ ~IsOpen(socks[last'.s])
        /\ ~IsOpen(socks[last'.o])) =>
         /\ last'.err = "none"
         /\ Config(socks'[last'.s]) = Config(socks[last'.o])
         /\ socks'[last'.s].sock_desc = NoDesc
         /\ ~socks'[last'.s].passive
         /\ ~socks'[last'.s].connected
         /\ socks'[last'.o] = socks[last'.o]]_vars

\* a copy has just carried a configuration that is not the default one
C8_Witness ==
    /\ last.op \in CopyOps
    /\ last.err = "none"
    /\ last.s # last.o
    /\ socks[last.s].recv_size # DefaultRecvSize
    /\ Config(socks[last.s]) = Config(socks[last.o])

C10_ListenRefusedWhenOpen ==
    [][(last'.op = "listen" /\ socks[last'.s].sock_desc # NoDesc) =>
         /\ last'.err = "illegal_state"
         /\ ~last'.resolved
         /\ last'.tried = 0
         /\ socks' = socks
         /\ os' = os
         /\ live' = live]_vars

\* listen() has just been refused on a connected socket
C10_Witness ==
    /\ last.op = "listen"
    /\ last.err = "illegal_state"
    /\ socks[last.s].connected

\* C11: connect() on a passive socket raises illegal-state before the resolver
\* is called or any candidate is tried; the socket stays passive with the same
\* descriptor and nothing else changes.
C11_ConnectRefusedWhenPassive ==
    [][(last'.op = "connect" /\ socks[last'.s].passive) =>
         /\ last'.err = "illegal_state"
         /\ ~last'.resolved
         /\ last'.tried = 0
         /\ socks' = socks
         /\ os' = os
         /\ live' = live]_vars

\* connect() has just been refused on a socket that is still listening
C11_Witness ==
    /\ last.op = "connect"
    /\ last.err = "illegal_state"
    /\ socks[last.s].passive
    /\ os[socks[last.s].sock_desc] = "listen"

\* C12: connect() on a connected socket raises an error and leaves the socket
\* connected with its original descriptor, whatever the resolver and the
\* platform answer.
C12_ConnectRefusedWhenConnected ==
    [][(last'.op = "connect" /\ socks[last'.s].connected) =>
         /\ last'.err # "none"
         /\ socks'[last'.s] = socks[last'.s]
         /\ os' = os]_vars

C14_Accept ==
    [][(last'.op = "accept" /\ last'.err = "none") =>
         /\ socks[last'.s].passive
         /\ ~live[last'.o] /\ live'[last'.o]
         /\ socks'[last'.o].sock_desc \in Fds
         /\ socks'[last'.o].sock_desc # socks[last'.s].sock_desc
         /\ os[socks'[last'.o].sock_desc] = "free"
         /\ os'[socks'[last'.o].sock_desc] = "conn"
         /\ socks'[last'.o].connected
         /\ ~socks'[last'.o].passive
         /\ socks'[last'.o].net_proto = socks[last'.s].net_proto
         /\ socks'[last'.o].trans_proto = socks[last'.s].trans_proto
         /\ socks'[last'.s] = socks[last'.s]
         /\ ~socks'[last'.s].connected
         /\ os'[socks'[last'.s].sock_desc] = "listen"]_vars

\* accept() has just returned a socket of the family set on the listener
C14_Witness ==
    /\ last.op = "accept"
    /\ last.err = "none"
    /\ socks[last.s].passive
    /\ socks[last.o].connected
    /\ socks[last.o].net_proto = "IPv6"

\* a step of SpecIO that is a call on object 1 (the peer's steps are not)
IoCall == nops' # nops

\* C15: on a socket that is not connected (unopened, closed or passive) send,
\* send_all, recv, recv_all and packet_error_send raise illegal-state for
\* every overload, size, platform answer and random draw; no platform call is
\* made, no byte is transmitted or consumed and the socket is unchanged.
C15_IoRefusedWhenNotConnected ==
    [][(IoCall /\ io'.op \in IoOps /\ ~socks[1].connected) =>
         /\ io'.err = "illegal_state"
         /\ io'.calls = <<>> /\ io'.att = <<>>
         /\ io'.tx = <<>> /\ wire' = wire
         /\ io'.data = <<>> /\ inq' = inq
         /\ socks' = socks
         /\ os' = os]_vars

\* packet_error_send() has just been refused on a listening socket although
\* the draw was one that drops the packet
C15_Witness ==
    /\ io.op = "packet_error_send"
    /\ io.err = "illegal_state"
    /\ io.draw <= DropRate
    /\ socks[1].passive

\* C16: when ::recv() of a recv() for more than zero bytes delivers zero
\* bytes, recv() returns 0 without raising and the socket is as after
\* close(): descriptor released, no descriptor held, neither connected nor
\* passive, configuration unchanged.
C16_RecvEndOfStream ==
    [][(/\ IoCall /\ io'.op = "recv" /\ socks[1].connected /\ io'.size > 0
        /\ "recv" \in Range(io'.calls) /\ io'.err # "resource" /\ io'.rcvd = 0) =>
         /\ io'.err = "none"
         /\ io'.ret = 0
         /\ socks'[1].sock_desc = NoDesc
         /\ ~socks'[1].connected
         /\ ~socks'[1].passive
         /\ Config(socks'[1]) = Config(socks[1])
         /\ socks'[1] = CloseFields(socks[1])
         /\ os' = OsClose(os, socks[1].sock_desc)
         /\ os'[socks[1].sock_desc] = "free"]_vars

\* recv() has just returned 0 because the peer had closed
C16_Witness ==
    /\ io.op = "recv"
    /\ io.err = "none"
    /\ io.ret = 0
    /\ io.size > 0
    /\ peer.closed
    /\ socks[1].sock_desc = NoDesc
    /\ os = [f \in Fds |-> "free"]

\* C17: recv() for zero bytes on a connected socket returns 0 without any
\* platform call (no wait, no read) and changes nothing, whether or not the
\* peer has closed, data is unread or a timeout is set.
C17_RecvZeroBytes ==
    [][(IoCall /\ io'.op = "recv" /\ socks[1].connected /\ io'.size = 0) =>
         /\ io'.err = "none"
         /\ io'.ret = 0
         /\ io'.calls = <<>>
         /\ io'.data = <<>> /\ inq' = inq
         /\ socks' = socks
         /\ socks'[1].connected
         /\ os' = os]_vars

\* recv() for zero bytes has just returned on a socket with a timeout set,
\* whose peer has closed
C17_Witness ==
    /\ io.op = "recv"
    /\ io.size = 0
    /\ io.err = "none"
    /\ socks[1].connected
    /\ socks[1].do_timeout
    /\ peer.closed

\* C18: on a connected socket with a timeout set, a recv() for more than zero
\* bytes whose select() reports that nothing became ready within the deadline
\* raises Timeout without calling ::recv(); select() is given the whole
\* timeout, the socket stays connected with its descriptor and its timeout,
\* and no byte is consumed.  Timeout is raised in no other case, and never
\* when no timeout is set.
C18_RecvTimeout ==
    [][(IoCall /\ io'.op = "recv" /\ socks[1].connected /\ io'.size > 0) =>
         /\ (socks[1].do_timeout /\ inq = <<>> /\ ~peer.closed /\ io'.sel # "error")
              => io'.err = "timeout"
         /\ io'.err = "timeout" =>
              /\ socks[1].do_timeout
              /\ inq = <<>> /\ ~peer.closed
              /\ io'.calls = <<"select">>
              /\ io'.wait = socks[1].timeout
              /\ io'.data = <<>> /\ inq' = inq
              /\ socks' = socks
              /\ socks'[1].connected
              /\ os' = os]_vars

\* recv() has just raised Timeout on a connected socket
C18_Witness ==
    /\ io.op = "recv"
    /\ io.err = "timeout"
    /\ socks[1].connected
    /\ socks[1].do_timeout
    /\ inq = <<>>

\* C19: send_all() for exact_size bytes on a connected socket, when every
\* attempt transmits at least one byte, returns exact_size after transmitting
\* the first exact_size bytes of the data once and in order; every attempt
\* starts at the offset of the bytes already sent and hands over the bytes
\* still missing; for exact_size = 0 no call of ::send() is made.
C19_SendAll ==
    [][(/\ IoCall /\ io'.op = "send_all" /\ socks[1].connected
        /\ \A k \in 1..Len(io'.att) : io'.att[k].n >= 1) =>
         /\ io'.err = "none"
         /\ io'.ret = io'.size
         /\ io'.tx = Buf(io'.size)
         /\ wire' = wire \o Buf(io'.size)
         /\ \A k \in 1..Len(io'.att) :
              /\ io'.att[k].off = Moved(io'.att, k - 1)
              /\ io'.att[k].req = io'.size - io'.att[k].off
         /\ Len(io'.calls) = Len(io'.att)
         /\ (io'.size = 0 => io'.calls = <<>>)
         /\ socks' = socks
         /\ os' = os]_vars

\* send_all() has just sent three bytes in three attempts
C19_Witness ==
    /\ io.op = "send_all"
    /\ io.err = "none"
    /\ io.ret = 3
    /\ Len(io.att) = 3
    /\ wire = Buf(3)

\* C20: recv_all() for exact_size bytes on a connected socket makes attempts
\* that each ask for the bytes still missing; it consumes and returns at most
\* exact_size bytes, in the order they were sent; when it returns it has
\* either exact_size bytes or has seen a zero-byte read after the peer's
\* close, which closes the socket; with the peer closed and fewer than
\* exact_size bytes unread it returns their number without raising, unless
\* the platform fails.
C20_RecvAll ==
    [][(IoCall /\ io'.op = "recv_all" /\ socks[1].connected) =>
         /\ \A k \in 1..Len(io'.att) :
              /\ io'.att[k].off = Moved(io'.att, k - 1)
              /\ io'.att[k].req = io'.size - io'.att[k].off
              /\ io'.att[k].req >= 1
         /\ io'.rcvd = Moved(io'.att, Len(io'.att))
         /\ io'.rcvd <= io'.size
         /\ io'.data = Take(inq, io'.rcvd)
         /\ inq' = Drop(inq, io'.rcvd)
         /\ io'.err = "none" =>
              /\ io'.ret = io'.rcvd
              /\ \/ io'.ret = io'.size /\ socks' = socks /\ os' = os
                 \/ /\ io'.ret < io'.size
                    /\ peer.closed
                    /\ io'.att[Len(io'.att)].n = 0
                    /\ socks'[1] = CloseFields(socks[1])
         /\ (peer.closed /\ Len(inq) < io'.size /\ io'.err # "resource") =>
              /\ io'.err = "none"
              /\ io'.ret = Len(inq)
              /\ ~socks'[1].connected]_vars

\* recv_all() has just returned fewer bytes than asked for, after more than
\* one attempt, because the peer had closed
C20_Witness ==
    /\ io.op = "recv_all"
    /\ io.err = "none"
    /\ io.ret > 0
    /\ io.ret < io.size
    /\ Len(io.att) >= 2
    /\ peer.closed
    /\ ~socks[1].connected

\* C27: set_timeout(t) with t >= 0 never raises, get_timeout() then returns t
\* and timeout_is_set() is true exactly when t > 0; after set_timeout(0) the
\* socket shows what it shows after clear_timeout() (no timeout,
\* get_timeout() = 0); a negative t raises invalid-configuration and changes
\* nothing.
C27_SetTimeoutRoundTrip ==
    [][last'.op = "set_timeout" =>
         IF last'.arg >= 0
         THEN /\ last'.err = "none"
              /\ GetTimeout(socks'[last'.s]) = last'.arg
              /\ TimeoutIsSet(socks'[last'.s]) <=> last'.arg > 0
              /\ last'.arg = 0 =>
                   /\ TimeoutIsSet(socks'[last'.s])
                        = TimeoutIsSet(ClearTimeout(socks[last'.s]).sk)
                   /\ GetTimeout(socks'[last'.s])
                        = GetTimeout(ClearTimeout(socks[last'.s]).sk)
         ELSE /\ last'.err = "invalid_config"
              /\ socks' = socks]_vars

\* C28: on an unopened socket set_backlog(b) with b >= 0 does not raise and
\* get_backlog() then returns b, nothing else of the socket changing; with
\* b < 0 it raises invalid-configuration in every state of the socket and
\* changes nothing; the backlog of every socket is non-negative in every
\* reachable state.
C28_Backlog ==
    /\ [](\A s \in Socks : socks[s].backlog >= 0)
    /\ [][last'.op = "set_backlog" =>
            IF last'.arg < 0
            THEN /\ last'.err = "invalid_config"
                 /\ socks' = socks
            ELSE ~IsOpen(socks[last'.s]) =>
                   /\ last'.err = "none"
                   /\ socks'[last'.s].backlog = last'.arg
                   /\ socks'[last'.s] = [socks[last'.s] EXCEPT !.backlog = last'.arg]]_vars

\* set_backlog() with a negative argument has just been refused on a
\* listening socket
C28_Witness ==
    /\ last.op = "set_backlog"
    /\ last.arg < 0
    /\ last.err = "invalid_config"
    /\ socks[last.s].passive

\* what the claims call a legal family and a legal transport
BadNet(np) == np \notin {"ANY", "IPv4", "IPv6"}
BadTrans(tp) == tp # "TCP"
ProtoSetters == {"set_network_protocol", "set_transport_protocol"}
BadProtoArg(e) ==
    \/ e.op = "set_network_protocol" /\ BadNet(e.arg)
    \/ e.op = "set_transport_protocol" /\ BadTrans(e.arg)

\* in every state the transport is TCP and the family ANY, IPv4 or IPv6; a
\* constructor call with another value raises invalid-configuration and makes
\* no object; the default arguments make a socket with the default values
ProtocolsValid ==
    /\ [](\A s \in Socks : /\ socks[s].trans_proto = "TCP"
                           /\ socks[s].net_proto \in {"ANY", "IPv4", "IPv6"})
    /\ [][last'.op = "construct" =>
            /\ (BadNet(last'.arg[1]) \/ BadTrans(last'.arg[2])) =>
                 /\ last'.err = "invalid_config"
                 /\ socks' = socks /\ live' = live
            /\ last'.arg = <<"ANY", "TCP">> =>
                 /\ last'.err = "none"
                 /\ live'[last'.s]
                 /\ socks'[last'.s] =
                      [sock_desc |-> -1, net_proto |-> "ANY", trans_proto |-> "TCP",
                       passive |-> FALSE, backlog |-> 5, connected |-> FALSE,
                       do_timeout |-> FALSE, timeout |-> [tv_sec |-> 0, tv_usec |-> 0],
                       recv_size |-> 1400]]_vars

\* C29 as stated: the transport of every socket is TCP and its family ANY,
\* IPv4 or IPv6 in every state; a constructor or a setter given another value
\* raises invalid-configuration, the setter leaving the socket unchanged; a
\* default-constructed socket has the default values.
C29_ProtocolsValid ==
    /\ ProtocolsValid
    /\ [][(last'.op \in ProtoSetters /\ BadProtoArg(last')) =>
            /\ last'.err = "invalid_config"
            /\ socks' = socks]_vars

\* C29 amended: as C29, but a setter given an illegal value raises
\* invalid-configuration on an unopened socket only; on a passive or connected
\* socket it raises illegal-state; in both cases the socket is unchanged.
C29_ProtocolsValidUnopened ==
    /\ ProtocolsValid
    /\ [][(last'.op \in ProtoSetters /\ BadProtoArg(last')) =>
            /\ last'.err = IF IsOpen(socks[last'.s]) THEN "illegal_state"
                           ELSE "invalid_config"
            /\ socks' = socks]_vars

\* set_transport_protocol(UDP) has just been refused on an unopened socket
C29_Witness ==
    /\ last.op = "set_transport_protocol"
    /\ last.arg = "UDP"
    /\ last.err = "invalid_config"
    /\ ~IsOpen(socks[last.s])

\* a structure whose family tag does not match its form
FamilyMismatch(form, s) ==
    \/ form = "sockaddr_in" /\ s.family # "AF_INET"
    \/ form = "sockaddr_in6" /\ s.family # "AF_INET6"
    \/ form = "sockaddr_storage" /\ s.family \notin {"AF_INET", "AF_INET6"}

\* C30: constructing or assigning an address from a sockaddr_in not tagged
\* AF_INET, a sockaddr_in6 not tagged AF_INET6 or a sockaddr_storage tagged
\* neither raises the format error and leaves every address as it was; in
\* every reachable state exactly one of is_ipv4() and is_ipv6() is true of
\* every address.
C30_AddressFamily ==
    /\ [](\A a \in Addrs : is_ipv4(addrs[a]) # is_ipv6(addrs[a]))
    /\ [][(alast'.op \in {"construct", "assign"} /\ FamilyMismatch(alast'.form, alast'.arg)) =>
            /\ alast'.err = "format"
            /\ addrs' = addrs]_vars

\* an IPv6 address has just refused the assignment of a sockaddr_storage
\* with another family tag
C30_Witness ==
    /\ alast.op = "assign"
    /\ alast.form = "sockaddr_storage"
    /\ alast.arg.family = "AF_UNIX"
    /\ alast.err = "format"
    /\ is_ipv6(addrs[alast.a])

C24_ContainerElements ==
    (io.op \in {"recv", "recv_all"} /\ io.ov = "buffer" /\ io.err = "none") =>
        io.cont = io.ret \div io.w

\* C25: send and send_all of a text without a size argument, when all bytes
\* handed to the platform are sent, transmit the bytes of the text and one NUL
\* byte after them and return length + 1, also for the empty text.
C25_TextSentinel ==
    (/\ io.op \in {"send", "send_all"} /\ io.ov = "buffer" /\ io.arg = 0
     /\ io.err = "none" /\ (io.op = "send" => io.ret = io.size)) =>
        /\ io.ret = io.len + 1
        /\ io.tx = Append(Buf(io.len), 0)

\* C26: packet_error_send(data, size) on a connected socket with a draw of 15
\* or less returns size, calls nothing, transmits nothing and leaves the
\* socket unchanged; with a larger draw it makes the one ::send() of send(),
\* has the result of send() and transmits the bytes that were sent. A one-byte
\* call that returns has returned 1 and has put one byte on the connection
\* unless it was dropped, and then none.
C26_PacketErrorSend ==
    [][(IoCall /\ io'.op = "packet_error_send" /\ socks[1].connected) =>
         /\ io'.draw \in 1..100
         /\ socks' = socks /\ os' = os
         /\ wire' = wire \o io'.tx
         /\ IF io'.draw <= 15
            THEN /\ io'.err = "none"
                 /\ io'.ret = io'.size
                 /\ io'.calls = <<>>
                 /\ io'.tx = <<>>
            ELSE /\ io'.calls = <<"send">>
                 /\ \E r \in -1..io'.size :
                      LET x == Send(socks[1], r) IN
                      /\ io'.err = x.err
                      /\ io'.ret = x.ret
                      /\ Len(io'.tx) = IF x.err = "none" THEN x.ret ELSE 0
         /\ (io'.size = 1 /\ io'.err = "none") =>
              /\ io'.ret = 1
              /\ Len(wire') = Len(wire) + IF io'.draw <= 15 THEN 0 ELSE 1]_vars

\* a one-byte packet_error_send() has just dropped its byte after an earlier
\* call had sent one
C26_Witness ==
    /\ io.op = "packet_error_send"
    /\ io.draw = 15
    /\ io.size = 1
    /\ io.err = "none"
    /\ io.ret = 1
    /\ io.tx = <<>>
    /\ Len(wire) = 1
    /\ socks[1].connected

C22_PeerCloseSeenByReceive ==
    [][/\ ~IoCall => (socks' = socks /\ os' = os)
       /\ (IoCall /\ socks[1].connected /\ io'.op \notin {"close", "connect"}) =>
            \/ /\ socks'[1].connected
               /\ socks'[1].sock_desc = socks[1].sock_desc
               /\ os' = os
            \/ /\ io'.op \in {"recv", "recv_all"}
               /\ io'.size > 0
               /\ io'.err = "none"
               /\ peer.closed
               /\ io'.data = inq /\ io'.ret = Len(inq)
               /\ inq' = <<>>
               /\ ~rx.skipped => rx'.got = Stream(peer.sent)
               /\ ~socks'[1].connected]_vars

\* the peer has closed after it sent two bytes, the socket is still
\* connected, and a recv_all for three bytes has returned the two
C22_Witness ==
    /\ peer.closed
    /\ peer.sent = 2
    /\ io.op = "recv_all"
    /\ io.size = 3
    /\ io.err = "none"
    /\ io.ret = 2
    /\ rx.got = <<1, 2>>
    /\ ~socks[1].connected
    /\ socks[1].sock_desc = NoDesc

\* ================================================ recv_all step by step
\* One recv_all() call on object 1, one step per evaluation of the loop
\* test and per platform call, with the peer sending and closing and time
\* passing in between.  Time passes while select() waits with nothing to
\* read; the platform calls may fail.

\* a struct timeval in half seconds
Ticks(tv) == tv.tv_sec * 2 + (tv.tv_usec * 2) \div UsecPerSec

\* select() given what is left of the timeout since the call began
WaitCountsDown(sk, elapsed) ==
    IF Ticks(sk.timeout) > elapsed THEN Ticks(sk.timeout) - elapsed ELSE 0

\* struct timeval tmp_tv = _timeout; select(..., &tmp_tv): every select()
\* is given a fresh copy of the whole timeout
Wait(sk, elapsed) == Ticks(SelectDeadline(sk))

\* no recv_all() is running: the caller is free to make its next call
Idle == ra.pc \in {"none", "done"}

\* the call ends: it returns ret or raises err
Done(err, ret) == [ra EXCEPT !.pc = "done", !.err = err, !.ret = ret]

\* recv_all(data, exact_size) is called: the check of _connected and the
\* initialisation of rcvd
ra_call ==
    /\ Idle
    /\ nops < MaxIoOps
    /\ nops' = nops + 1
    /\ \E exact_size \in SizeArgs :
         ra' = IF ~socks[1].connected
               THEN [NoCall EXCEPT !.pc = "done", !.size = exact_size,
                                   !.err = "illegal_state"]
               ELSE [NoCall EXCEPT !.pc = "while", !.size = exact_size,
                                   !.timed = socks[1].do_timeout,
                                   !.tmo = Ticks(socks[1].timeout)]
    /\ UNCHANGED <<socks, live, os, last>>
    /\ UNCHANGED iovars
    /\ UNCHANGED avars

\* while( rcvd < exact_size ) and the entry of recv(d + rcvd, exact_size -
\* rcvd): its check of _connected, and the copy of _timeout for select()
ra_while ==
    /\ ra.pc = "while"
    /\ ra' = IF ~(ra.rcvd < ra.size) THEN Done("none", ra.rcvd)
             ELSE IF ~socks[1].connected THEN Done("illegal_state", 0)
             ELSE IF socks[1].do_timeout
             THEN [ra EXCEPT !.pc = "select", !.its = ra.its + 1,
                             !.budget = Wait(socks[1], ra.elapsed), !.waited = 0]
             ELSE [ra EXCEPT !.pc = "recv", !.its = ra.its + 1]
    /\ UNCHANGED <<socks, live, os, last, nops>>
    /\ UNCHANGED iovars
    /\ UNCHANGED avars

\* half a second passes while select() waits and nothing is there to read
ra_tick ==
    /\ ra.pc = "select"
    /\ inq = <<>> /\ ~peer.closed
    /\ ra.waited < ra.budget
    /\ ra' = [ra EXCEPT !.waited = ra.waited + 1, !.elapsed = ra.elapsed + 1]
    /\ UNCHANGED <<socks, live, os, last, nops>>
    /\ UNCHANGED iovars
    /\ UNCHANGED avars

\* select() or ::recv() returns -1
ra_fail ==
    /\ ra.pc \in {"select", "recv"}
    /\ ra' = Done("resource", 0)
    /\ UNCHANGED <<socks, live, os, last, nops>>
    /\ UNCHANGED iovars
    /\ UNCHANGED avars

\* select() returns: readable (data or the end of the stream), or 0 when
\* its time is up
ra_select ==
    /\ ra.pc = "select"
    /\ \/ /\ inq # <<>> \/ peer.closed
          /\ ra' = [ra EXCEPT !.pc = "recv"]
       \/ /\ inq = <<>> /\ ~peer.closed
          /\ ra.waited = ra.budget
          /\ ra' = Done("timeout", 0)
    /\ UNCHANGED <<socks, live, os, last, nops>>
    /\ UNCHANGED iovars
    /\ UNCHANGED avars

\* ::recv() returns: some of the bytes that are there, or 0 at the end of
\* the stream, upon which recv() closes the socket and the loop breaks;
\* with nothing to read and the peer open it does not return
ra_recv ==
    /\ ra.pc = "recv"
    /\ \/ /\ inq # <<>>
          /\ \E n \in 1..Min(ra.size - ra.rcvd, Len(inq)) :
               /\ inq' = Drop(inq, n)
               /\ ra' = [ra EXCEPT !.pc = "while", !.rcvd = ra.rcvd + n]
          /\ UNCHANGED <<socks, os>>
       \/ /\ inq = <<>> /\ peer.closed
          /\ socks' = [socks EXCEPT ![1] = CloseFields(socks[1])]
          /\ os' = CloseOs(socks[1], os)
          /\ ra' = [Done("none", ra.rcvd) EXCEPT !.eof = TRUE]
          /\ UNCHANGED inq
    /\ UNCHANGED <<live, last, nops, peer, wire, io, rx>>
    /\ UNCHANGED avars

\* connect() and set_timeout() between two recv_all() calls
ra_connect == Idle /\ io_connect

ra_set_timeout == Idle /\ io_set_timeout

\* the thread that called recv_all() runs on, time passes, and a platform
\* call that can return does return; nothing says that a call fails
RaStep == ra_while \/ ra_tick \/ ra_select \/ ra_recv

\* between its recv_all() calls the caller connects and sets the timeout;
\* the peer sends and closes whenever it likes
NextRecvAll ==
    \/ ra_connect
    \/ ra_set_timeout
    \/ ra_call
    \/ ra_while
    \/ ra_tick
    \/ ra_select
    \/ ra_recv
    \/ ra_fail
    \/ peer_send
    \/ peer_close

SpecRecvAll == Init /\ [][NextRecvAll]_vars /\ WF_vars(RaStep)

\* the texts that are an IPv4 address and those that are an IPv6 address in
\* presentation form
Ipv4Texts == {"192.168.11.212", "132.168.11.212"}
Ipv6Texts == {"ffe0::1", "1:abcd:1234:fedc:0:6789:a5a5:4567"}

\* C31: set_address() with a text that is neither an IPv4 nor an IPv6 address
\* raises the format error and leaves every address as it was, in family,
\* port, address bytes, flow information and scope identifier.
C31_SetAddressRefused ==
    [][(alast'.op = "set_address" /\ alast'.arg \notin Ipv4Texts \cup Ipv6Texts) =>
         /\ alast'.err = "format"
         /\ addrs' = addrs]_vars

\* set_address() has just refused a text on an IPv6 address that has a port,
\* flow information and a scope identifier
C31_Witness ==
    /\ alast.op = "set_address"
    /\ alast.arg = "345::4324::ABBB"
    /\ alast.err = "format"
    /\ is_ipv6(addrs[alast.a])
    /\ get_port(addrs[alast.a]) = 34567
    /\ addrs[alast.a].flow = 3
    /\ addrs[alast.a].scope = 3

\* C32: after a set_address() that does not raise, the family is that of the
\* text, the address bytes are the parsed bytes, the port is as before and
\* flow information and scope identifier are zero, whether or not the family
\* has changed.
C32_SetAddress ==
    [][(alast'.op = "set_address" /\ alast'.err = "none") =>
         LET a == addrs[alast'.a]
             b == addrs'[alast'.a] IN
         /\ alast'.arg \in Ipv4Texts => (is_ipv4(b) /\ b.addr = Pton4(alast'.arg))
         /\ alast'.arg \in Ipv6Texts => (is_ipv6(b) /\ b.addr = Pton6(alast'.arg))
         /\ get_port(b) = get_port(a)
         /\ b.flow = 0
         /\ b.scope = 0]_vars

\* C33: two addresses are equal exactly when they have the same family, the
\* same port and the same address bytes and, when they are IPv6, the same
\* flow information and scope identifier; an IPv4 and an IPv6 address are not
\* equal; after a = b the two are equal; and when two addresses are equal,
\* giving one of them another port makes them unequal.
C33_Equality ==
    /\ \A i, j \in Addrs :
         LET a == addrs[i]
             b == addrs[j] IN
         /\ AddrEq(a, b) <=>
              /\ is_ipv4(a) = is_ipv4(b) /\ is_ipv6(a) = is_ipv6(b)
              /\ get_port(a) = get_port(b)
              /\ a.addr = b.addr
              /\ is_ipv6(a) => (a.flow = b.flow /\ a.scope = b.scope)
         /\ (is_ipv4(a) /\ is_ipv6(b)) => (~AddrEq(a, b) /\ ~AddrEq(b, a))
         /\ \A num \in PortInputs :
              (AddrEq(a, b) /\ num # get_port(a)) => ~AddrEq(SetPort(a, num), b)
    /\ alast.op = "copy" => AddrEq(addrs[alast.a], addrs[alast.arg])

\* an IPv6 address with flow information and a scope identifier has just
\* been copied to the other address
C33_Witness ==
    /\ alast.op = "copy"
    /\ alast.a # alast.arg
    /\ is_ipv6(addrs[alast.a])
    /\ addrs[alast.a].flow = 3
    /\ addrs[alast.a].scope = 3
    /\ AddrEq(addrs[alast.a], addrs[alast.arg])


\* ---------------------------------------------------------------- C34
\* C34: from the moment a socket is passive or connected until it is
\* closed, no operation changes its family, its transport kind or its
\* backlog: a step that finds an object open and leaves it open leaves
\* these three fields as they were.
C34_ConfigImmutableWhileOpen ==
    [][\A s \in Socks :
         (live[s] /\ live'[s] /\ IsOpen(socks[s]) /\ IsOpen(socks'[s])) =>
           /\ socks'[s].net_proto = socks[s].net_proto
           /\ socks'[s].trans_proto = socks[s].trans_proto
           /\ socks'[s].backlog = socks[s].backlog]_vars

\* ---------------------------------------------------------------- C35
\* C35: in every reachable state every socket holds a descriptor (its
\* descriptor differs from -1) exactly when it is passive or connected.
C35_DescriptorIffOpen ==
    \A s \in Socks : live[s] => ((socks[s].sock_desc # NoDesc) <=> IsOpen(socks[s]))

\* a socket that was opened and then moved from: the source is back to
\* unopened without a descriptor and the target holds it
C35_Witness ==
    /\ last.op = "move_assign" /\ last.s # last.o
    /\ socks[last.s].sock_desc # NoDesc /\ socks[last.s].connected
    /\ socks[last.o].sock_desc = NoDesc /\ ~IsOpen(socks[last.o])


\* ---------------------------------------------------------------- C36
\* neither passive nor connected, and without a descriptor
Unopened(sk) == sk.sock_desc = NoDesc /\ ~sk.passive /\ ~sk.connected

\* the platform call that decides a candidate
CandCall(op) == IF op = "listen" THEN "bind" ELSE "connect"

\* every descriptor socket() returned before position n of the calls c is
\* closed right after the bind/connect that followed it
FailedClosed(c, n) ==
    \A k \in 1..(n - 1) :
      (c[k].f = "socket" /\ c[k].r # -1 /\ k + 1 < n) =>
        (k + 2 < n /\ c[k + 2].f = "close" /\ c[k + 2].fd = c[k].r)

\* C36: listen (connect) on an unopened socket tries the candidates in the
\* resolver's order; the descriptor the socket holds afterwards is the one
\* of the first candidate whose bind (connect) succeeded, no candidate
\* after it is attempted, the descriptors of the candidates that failed
\* before it are closed, and the socket is passive (connected), listen
\* having passed the configured backlog to the platform.
C36_FirstCandidateWins ==
    [][(last'.op \in {"listen", "connect"} /\ Unopened(socks[last'.s]) /\ last'.err = "none") =>
         LET s == last'.s
             c == last'.calls
             outs == last'.arg
             call == CandCall(last'.op)
             held == socks'[s].sock_desc
             SockIdx == {j \in DOMAIN c : c[j].f = "socket"}
             Won == {j \in DOMAIN c : c[j].f = call /\ c[j].r = 0}
         IN
         /\ \A j \in SockIdx : c[j].cand = Cardinality({k \in SockIdx : k <= j})
         /\ \A j \in SockIdx : c[j].r # -1 => (j < Len(c) /\ c[j + 1].f = call)
         /\ \A j \in DOMAIN c :
              c[j].f = call =>
                /\ j > 1 /\ c[j - 1].f = "socket"
                /\ c[j - 1].r = c[j].fd /\ c[j - 1].cand = c[j].cand
                /\ c[j].r = 0 <=> outs[c[j].cand] = "ok"
         /\ \E j \in Won :
              /\ Won = {j}
              /\ held = c[j].fd /\ held \in Fds /\ os[held] = "free"
              /\ \A k \in DOMAIN c : c[k].cand <= c[j].cand
              /\ \A k \in DOMAIN c : k > j => (c[k].f = "listen" /\ k = Len(c))
              /\ FailedClosed(c, j - 1)
         /\ os' = [os EXCEPT ![held] = IF last'.op = "listen" THEN "listen" ELSE "conn"]
         /\ IF last'.op = "listen"
            THEN /\ socks'[s] = [socks[s] EXCEPT !.sock_desc = held, !.passive = TRUE]
                 /\ c[Len(c)].f = "listen" /\ c[Len(c)].fd = held
                 /\ c[Len(c)].arg = socks[s].backlog /\ c[Len(c)].r = 0
            ELSE /\ socks'[s] = [socks[s] EXCEPT !.sock_desc = held, !.connected = TRUE]
                 /\ c[Len(c)].f = "connect"]_vars

\* a listen with backlog 6 whose first candidate failed to bind, whose
\* second got no descriptor and whose third was bound
C36_Witness ==
    /\ last.op = "listen" /\ last.err = "none"
    /\ last.arg = <<"fail", "nosock", "ok">>
    /\ Len(last.calls) = 7
    /\ socks[last.s].passive /\ socks[last.s].backlog = 6
    /\ last.calls[7].arg = 6
    /\ os[socks[last.s].sock_desc] = "listen"

\* ---------------------------------------------------------------- C37
\* C37: when listen or connect on an unopened socket fails (the resolver
\* fails, no candidate is bound/connected, or ::listen fails on the bound
\* candidate), it raises a resource error, the socket is as before (no
\* descriptor, not passive, not connected, same configuration) and every
\* descriptor created during the call has been closed.
C37_FailureLeavesUnopened ==
    [][(/\ last'.op \in {"listen", "connect"}
        /\ Unopened(socks[last'.s])
        /\ \/ last'.arg = <<>>
           \/ \A i \in DOMAIN last'.arg : last'.arg[i] # "ok"
           \/ ~HasFree(os)
           \/ last'.op = "listen" /\ ~last'.lok) =>
         /\ last'.err = "resource" /\ ExcClass(last'.err) = "runtime_error"
         /\ socks' = socks
         /\ os' = os
         /\ \A k \in DOMAIN last'.calls :
              (last'.calls[k].f = "socket" /\ last'.calls[k].r # -1) =>
                \E m \in DOMAIN last'.calls :
                  m > k /\ last'.calls[m].f = "close" /\ last'.calls[m].fd = last'.calls[k].r]_vars

\* a listen with backlog 6 that bound its second candidate and then
\* failed in ::listen: both descriptors are closed again
C37_Witness ==
    /\ last.op = "listen" /\ last.err = "resource"
    /\ last.arg = <<"fail", "ok">> /\ ~last.lok
    /\ Len(last.calls) = 7
    /\ last.calls[6].f = "listen" /\ last.calls[6].r = -1
    /\ Unopened(socks[last.s]) /\ socks[last.s].backlog = 6
    /\ \A f \in Fds : os[f] = "free"


\* ---------------------------------------------------------------- C38
\* C38: when a receive inside recv_all() raises Timeout after k bytes have
\* been accumulated, recv_all() makes no further attempt, its caller gets
\* the Timeout, and the Timeout carries the count k.
C38_TimeoutCarriesCount ==
    (io.op = "recv_all" /\ io.err = "timeout") =>
      /\ io.att # <<>>
      /\ io.att[Len(io.att)].n = 0
      /\ io.rcvd = Moved(io.att, Len(io.att))
      /\ ExcClass(io.err) = "timeout_exception"
      /\ TimeoutException.partial_data_size = io.rcvd

\* ---------------------------------------------------------------- C39
\* C39: when an attempt of send_all() on a connected socket fails after k
\* bytes have been transmitted, send_all() raises the failure of that
\* attempt and makes no attempt after it; the first k bytes of the data and
\* nothing else have been transmitted, and the connected flag and the
\* descriptor of the socket are as before.
C39_SendAllFailure ==
    [][(/\ IoCall /\ io'.op = "send_all" /\ socks[1].connected
        /\ \E k \in 1..Len(io'.att) : io'.att[k].n = 0) =>
         LET n == Len(io'.att)
             k == Moved(io'.att, n - 1) IN
         /\ io'.err = "resource"
         /\ io'.att[n].n = 0
         /\ \A j \in 1..(n - 1) : io'.att[j].n >= 1
         /\ Len(io'.calls) = n
         /\ io'.att[n].off = k
         /\ k < io'.size
         /\ io'.tx = Take(Buf(io'.len), k)
         /\ wire' = wire \o Take(Buf(io'.len), k)
         /\ socks'[1].connected = socks[1].connected
         /\ socks'[1].sock_desc = socks[1].sock_desc
         /\ socks' = socks /\ os' = os]_vars

\* send_all() of three bytes has failed in its second attempt after the
\* first had transmitted two bytes
C39_Witness ==
    /\ io.op = "send_all" /\ io.err = "resource"
    /\ io.size = 3
    /\ Len(io.att) = 2 /\ io.att[1].n = 2 /\ io.att[2].n = 0
    /\ io.tx = Take(Buf(io.len), 2)
    /\ wire = io.tx
    /\ socks[1].connected


\* ---------------------------------------------------------------- C40
\* C40: with a timeout set, every recv_all() on a connected socket ends,
\* whatever the peer does.  Every call of recv() but the last has added at
\* least one byte and at most exact_size bytes are taken in all; every
\* select() is given the whole timeout again, so a Timeout is raised only
\* after one select() has waited the whole timeout with nothing to read,
\* and the call as a whole may last longer than the timeout (at most one
\* timeout per call of recv()).
C40_RecvAllTerminates ==
    /\ [](ra.timed =>
            /\ ra.rcvd <= ra.size
            /\ ra.its <= ra.rcvd + 1
            /\ ra.pc = "while" => ra.its <= ra.rcvd
            /\ ra.pc \in {"while", "select", "recv"} =>
                 /\ socks[1].connected /\ socks[1].do_timeout
                 /\ ra.tmo = Ticks(socks[1].timeout)
            /\ ra.pc = "select" => ra.budget = ra.tmo
            /\ ra.waited <= ra.tmo
            /\ ra.elapsed <= ra.its * ra.tmo
            /\ (ra.pc = "done" /\ ra.err = "timeout") =>
                 (ra.waited = ra.tmo /\ ra.tmo > 0)
            /\ (ra.pc = "done" /\ ra.err = "none") =>
                 (ra.ret = ra.rcvd /\ (ra.rcvd = ra.size \/ ra.eof)))
    /\ (ra.timed /\ ra.pc \in {"while", "select", "recv"}) ~> (ra.pc = "done")

\* a recv_all() for three bytes with a timeout of three half seconds has
\* returned two bytes after the peer's close; it lasted four half seconds
C40_Witness ==
    /\ ra.timed /\ ra.tmo = 3
    /\ ra.pc = "done" /\ ra.err = "none" /\ ra.eof
    /\ ra.size = 3 /\ ra.ret = 2 /\ ra.its = 3
    /\ ra.elapsed = 4

====
